---- MODULE Spec2Model ----
(***************************************************************************)
(* WorgenX: the mask-driven wordlist generator (src/src/wordlist.rs) with  *)
(* its hash dispatcher and file sink (src/src/system.rs),                  *)
(* its alphabet (src/src/dict.rs), the two front ends that configure a    *)
(* run and call its scheduler (src/src/mode/cli.rs, src/src/mode/gui.rs), *)
(* the CPU benchmark (src/src/benchmark.rs) and the random password        *)
(* generator (src/src/password.rs).                                        *)
(*                                                                         *)
(* Characters are one-character strings, Rust strings and Vec<char> are    *)
(* sequences of them. Rust indexes are 0-based and kept 0-based as values; *)
(* TLA+ sequences are 1-based, so v[k] in Rust is v[k+1] here.             *)
(***************************************************************************)
EXTENDS Integers, Sequences, FiniteSets, TLC

VARIABLES
    mask,             \* WordlistValues.mask, the mask typed by the user
    mask_pos,         \* number of characters of mask consumed by format_mask_to_indexes
    mask_st,          \* locals of format_mask_to_indexes
    wordlist_config,  \* WordlistConfig {dict, mask_indexes, formated_mask, hash}
    nb_of_passwords,  \* the total handed to run_wordlist_generation
    nb_of_threads,    \* the worker count handed to run_wordlist_generation
    pc,               \* position of the thread running run_wordlist_generation
    temp,             \* run_wordlist_generation: the running start vector
    threads,          \* run_wordlist_generation: one entry per spawned worker
    joined,           \* run_wordlist_generation: number of workers joined so far
    result,           \* what run_wordlist_generation, or the argument check, returned
    file,             \* the bytes of the output file
    GLOBAL_COUNTER,   \* static GLOBAL_COUNTER: AtomicU64
    hash_call,        \* a direct call of manage_hash: its arguments and result
    wordlist_values,  \* WordlistValues: the four class booleans chosen by the user
    poisoned,         \* whether the Mutex<File> of the output file is poisoned
    scheduler,        \* the call of wordlist_generation_scheduler: position, result
    main_thread,      \* the monitor threads spawned so far by the process
    runs,             \* number of wordlist runs the process has started
    mode,             \* the front end that built the configuration: cli, gui or none
    physical_cores,   \* num_cpus::get_physical() on the machine
    threads_arg,      \* the value given with -t on the command line, if any
    benchmark,        \* the call of load_cpu_benchmark: position, joins, result
    elapsed,          \* start.elapsed() of the benchmark, in half seconds
    shared_signal,    \* benchmark: Arc<AtomicBool>, true while the test runs
    shared_passwd_counter, \* benchmark: Arc<Mutex<u64>>
    stress_test,      \* benchmark: one entry per thread running run_stress_test
    rx_progress_bar,  \* benchmark: the messages in the mpsc channel
    progress_bar_thread, \* benchmark: the thread drawing the progress bar
    password_config,  \* PasswordConfig and the number of passwords asked
    password_content, \* generate_random_passwords: the shuffled alphabet
    random_password,  \* generate_random_passwords: the password being built
    random_passwords  \* generate_random_passwords: the passwords built so far

\* What the caller of a run holds, left alone by the run itself.
caller_vars == <<wordlist_values, poisoned, scheduler, main_thread, runs, mode>>

\* The machine and the -t option, read once when the options are built.
machine_vars == <<physical_cores, threads_arg>>

\* The state of the CPU benchmark.
benchmark_vars == <<benchmark, elapsed, shared_signal, shared_passwd_counter,
                    stress_test, rx_progress_bar, progress_bar_thread>>

\* The state of the random password generation.
password_vars == <<password_config, password_content, random_password,
                   random_passwords>>

\* What a wordlist run never touches.
feature_vars == <<machine_vars, benchmark_vars, password_vars>>

vars == <<mask, mask_pos, mask_st, wordlist_config, nb_of_passwords, nb_of_threads,
          pc, temp, threads, joined, result, file, GLOBAL_COUNTER, hash_call,
          wordlist_values, poisoned, scheduler, main_thread, runs, mode,
          physical_cores, threads_arg, benchmark, elapsed, shared_signal,
          shared_passwd_counter, stress_test, rx_progress_bar, progress_bar_thread,
          password_config, password_content, random_password, random_passwords>>

-----------------------------------------------------------------------------
(* Bounds of the model *)

MaxThreads == 3      \* worker counts 1..MaxThreads
MaxMaskLen == 4      \* masks of the mask-compiler specification
MaxCount == 5        \* counts given to a worker that is called directly
MaxArgLen == 2       \* masks given to the argument checks of the front ends
MaxRuns == 2         \* wordlist runs made in sequence by one process
MaxPasswd == 2       \* passwords one stress-test thread generates at most
MaxLength == 2       \* lengths asked of the random password generation
MaxPasswords == 2    \* numbers of random passwords asked
MaxSlots == 5        \* slots of the masks whose total is computed

\* const BUFFER_SIZE: usize = 100000, scaled down so that a worker of the
\* model fills its buffer: the code only compares buffer.len() with it.
BUFFER_SIZE == 2

\* u64::MAX, scaled down with the counts of the model (the real value is
\* 2^64 - 1): nb_of_passwd_generated * 100 exceeds it from 3 records on.
U64_MAX == 299

NUL == "NUL"         \* 0u8 as char, the placeholder pushed for a slot
NL == "\n"

Min(S) == CHOOSE x \in S : \A y \in S : x <= y

RECURSIVE Pow(_, _)
Pow(b, e) == IF e = 0 THEN 1 ELSE b * Pow(b, e - 1)

-----------------------------------------------------------------------------
(* Machine arithmetic on usize: dict.len().pow(mask_indexes.len() as u32) *)

\* usize::MAX, scaled down to a word of 27 bits (the real value is 2^64 - 1,
\* or 2^32 - 1 on a 32-bit target): 91^4 fits in the word and 91^5 does
\* not, as with the real word of 32 bits.
USIZE_MAX == 134217727

wrapping_add(a, b) == (a + b) % (USIZE_MAX + 1)

\* a * b modulo the word, by doublings and additions that stay inside the
\* word.
RECURSIVE wrapping_mul(_, _)
wrapping_mul(a, b) ==
    IF b = 0 THEN 0
    ELSE LET half == wrapping_mul(a, b \div 2)
         IN  wrapping_add(wrapping_add(half, half), IF b % 2 = 1 THEN a ELSE 0)

\* a * b as the machine computes it: the wrapped product, and whether the
\* mathematical product is out of the word.
overflowing_mul(a, b) ==
    [val |-> wrapping_mul(a, b), overflow |-> b # 0 /\ a > USIZE_MAX \div b]

\* self.pow(exp) on usize: the product of exp factors, wrapped whenever a
\* multiplication overflows; `overflow` tells whether one did, in which case
\* a build with overflow checks panics instead of returning val.  (The
\* power of exp - 1 is bound through a set so that it is computed once.)
RECURSIVE usize_pow(_, _)
usize_pow(self, exp) ==
    IF exp = 0 THEN [val |-> 1, overflow |-> FALSE]
    ELSE CHOOSE p \in
            { [val |-> overflowing_mul(r.val, self).val,
               overflow |-> r.overflow \/ overflowing_mul(r.val, self).overflow] :
                 r \in { usize_pow(self, exp - 1) } } : TRUE

-----------------------------------------------------------------------------
(* Mask compiler: format_mask_to_indexes *)

mask_locals_init ==
    [formated_mask |-> <<>>, mask_indexes |-> <<>>, escaped |-> FALSE,
     idx_formated_mask |-> 0]

\* The body of the loop without the `continue` of line 110: the position
\* counter also counts the backslash that pushes nothing.
format_mask_char_no_continue(st, c) ==
    IF c = "\\"
    THEN IF st.escaped
         THEN [st EXCEPT !.escaped = FALSE,
                         !.formated_mask = Append(@, c),
                         !.idx_formated_mask = @ + 1]
         ELSE [st EXCEPT !.escaped = TRUE,
                         !.idx_formated_mask = @ + 1]
    ELSE IF c = "?"
    THEN IF st.escaped
         THEN [st EXCEPT !.escaped = FALSE,
                         !.formated_mask = Append(@, c),
                         !.idx_formated_mask = @ + 1]
         ELSE [st EXCEPT !.mask_indexes = Append(@, st.idx_formated_mask),
                         !.formated_mask = Append(@, NUL),
                         !.idx_formated_mask = @ + 1]
    ELSE [st EXCEPT !.formated_mask = Append(@, c),
                    !.idx_formated_mask = @ + 1]

\* The body of `for c in mask.chars()`: the match on c, then idx += 1
\* (skipped by the `continue` of an unescaped backslash).
format_mask_char(st, c) ==
    IF c = "\\"
    THEN IF st.escaped
         THEN [st EXCEPT !.escaped = FALSE,
                         !.formated_mask = Append(@, c),
                         !.idx_formated_mask = @ + 1]
         ELSE [st EXCEPT !.escaped = TRUE]
    ELSE IF c = "?"
    THEN IF st.escaped
         THEN [st EXCEPT !.escaped = FALSE,
                         !.formated_mask = Append(@, c),
                         !.idx_formated_mask = @ + 1]
         ELSE [st EXCEPT !.mask_indexes = Append(@, st.idx_formated_mask),
                         !.formated_mask = Append(@, NUL),
                         !.idx_formated_mask = @ + 1]
    ELSE [st EXCEPT !.formated_mask = Append(@, c),
                    !.idx_formated_mask = @ + 1]

\* The whole loop `for c in mask.chars()` from the locals st.
RECURSIVE format_mask_from(_, _)
format_mask_from(st, m) ==
    IF m = <<>> THEN st ELSE format_mask_from(format_mask_char(st, Head(m)), Tail(m))

-----------------------------------------------------------------------------
(* Hash dispatcher: manage_hash, hash_with_digest *)

\* hex::encode(hasher.finalize()) of password.as_bytes(): the digest is kept
\* symbolic, one injective term per hasher.
hash_with_digest(hasher, password) == <<"hex", hasher>> \o password

Ok(v) == [ok |-> TRUE, val |-> v]
Err(e) == [ok |-> FALSE, val |-> e]

\* manage_hash matching the name without regard to case.
manage_hash_any_case(password, hash) ==
    LET name == CASE hash = "MD5" -> "md5"
                  [] hash = "SHA1" -> "sha1"
                  [] hash = "Sha256" -> "sha256"
                  [] hash = "Whirlpool" -> "whirlpool"
                  [] OTHER -> hash
    IN  IF name \in { "md5", "sha1", "sha224", "sha256", "sha384", "sha512",
                      "sha3-224", "sha3-256", "sha3-384", "sha3-512",
                      "blake2b-512", "blake2s-256", "whirlpool" }
        THEN Ok(hash_with_digest(name, password))
        ELSE Err(<<"UnsupportedHashAlgorithm", hash>>)

manage_hash(password, hash) ==
    CASE hash = "md5" -> Ok(hash_with_digest("Md5", password))
      [] hash = "sha1" -> Ok(hash_with_digest("Sha1", password))
      [] hash = "sha224" -> Ok(hash_with_digest("Sha224", password))
      [] hash = "sha256" -> Ok(hash_with_digest("Sha256", password))
      [] hash = "sha384" -> Ok(hash_with_digest("Sha384", password))
      [] hash = "sha512" -> Ok(hash_with_digest("Sha512", password))
      [] hash = "sha3-224" -> Ok(hash_with_digest("Sha3_224", password))
      [] hash = "sha3-256" -> Ok(hash_with_digest("Sha3_256", password))
      [] hash = "sha3-384" -> Ok(hash_with_digest("Sha3_384", password))
      [] hash = "sha3-512" -> Ok(hash_with_digest("Sha3_512", password))
      [] hash = "blake2b-512" -> Ok(hash_with_digest("Blake2b512", password))
      [] hash = "blake2s-256" -> Ok(hash_with_digest("Blake2s256", password))
      [] hash = "whirlpool" -> Ok(hash_with_digest("Whirlpool", password))
      [] OTHER -> Err(<<"UnsupportedHashAlgorithm", hash>>)

-----------------------------------------------------------------------------
(* Worker: generate_wordlist_part, and the sink save_passwd_to_file *)

\* The line fill reading the first digit of dict_indexes for every slot.
fill_line_first_digit(formated_mask, mask_indexes, dict, dict_indexes) ==
    [p \in 1..Len(formated_mask) |->
        IF \E idx \in 1..Len(mask_indexes) : mask_indexes[idx] = p - 1
        THEN dict[dict_indexes[1] + 1]
        ELSE formated_mask[p]]

\* (0..formated_mask.len()).for_each(..): position i takes the dictionary
\* character of the first idx with mask_indexes[idx] == i, else the mask's.
fill_line(formated_mask, mask_indexes, dict, dict_indexes) ==
    [p \in 1..Len(formated_mask) |->
        LET found == {idx \in 1..Len(mask_indexes) : mask_indexes[idx] = p - 1}
        IN  IF found # {}
            THEN dict[dict_indexes[Min(found)] + 1]
            ELSE formated_mask[p]]

\* for idx in (0..dict_indexes.len()).rev() { if < dict.len() - 1 {+= 1; break} = 0 }
RECURSIVE advance_from(_, _, _)
advance_from(dict_indexes, idx, dict_len) ==
    IF idx = 0 THEN dict_indexes
    ELSE IF dict_indexes[idx] < dict_len - 1
         THEN [dict_indexes EXCEPT ![idx] = @ + 1]
         ELSE advance_from([dict_indexes EXCEPT ![idx] = 0], idx - 1, dict_len)

\* The odometer with the first slot varying fastest.
RECURSIVE advance_from_left(_, _, _)
advance_from_left(dict_indexes, idx, dict_len) ==
    IF idx > Len(dict_indexes) THEN dict_indexes
    ELSE IF dict_indexes[idx] < dict_len - 1
         THEN [dict_indexes EXCEPT ![idx] = @ + 1]
         ELSE advance_from_left([dict_indexes EXCEPT ![idx] = 0], idx + 1, dict_len)

advance_dict_indexes_little_endian(dict_indexes, dict_len) ==
    advance_from_left(dict_indexes, 1, dict_len)

\* The odometer that stops at the last vector instead of wrapping to zeros.
advance_dict_indexes_saturating(dict_indexes, dict_len) ==
    IF \A k \in 1..Len(dict_indexes) : dict_indexes[k] = dict_len - 1
    THEN dict_indexes
    ELSE advance_from(dict_indexes, Len(dict_indexes), dict_len)

advance_dict_indexes(dict_indexes, dict_len) ==
    advance_from(dict_indexes, Len(dict_indexes), dict_len)

\* process_line that never hashes.
process_line_plain(line_str, hash) == Ok(line_str)

\* The closure process_line: the identity when hash is empty, else manage_hash.
process_line(line_str, hash) ==
    IF hash = "" THEN Ok(line_str) ELSE manage_hash(line_str, hash)

\* buffer.join("\n")
RECURSIVE join(_)
join(buffer) ==
    IF buffer = <<>> THEN <<>>
    ELSE IF Len(buffer) = 1 THEN buffer[1]
    ELSE buffer[1] \o <<NL>> \o join(Tail(buffer))

\* save_passwd_to_file without the final newline.
save_passwd_to_file_unterminated(f, passwords) == f \o passwords

\* save_passwd_to_file ending what it writes with two newlines.
save_passwd_to_file_blank_line(f, passwords) == f \o passwords \o <<NL, NL>>

\* save_passwd_to_file writing without the lock: the bytes land inside what
\* the previous writer wrote, before its last byte.
save_passwd_to_file_unlocked(f, passwords) ==
    IF f = <<>> THEN passwords \o <<NL>>
    ELSE SubSeq(f, 1, Len(f) - 1) \o passwords \o <<NL>> \o <<f[Len(f)]>>

\* save_passwd_to_file writes format!("{passwords}\n")
save_passwd_to_file(f, passwords) == f \o passwords \o <<NL>>

\* file.lock().map_err(|_| UnableToWriteToFile("output file", ..))?
lock_poisoned == <<"UnableToWriteToFile">>

\* write_all returning an error: any number of the bytes, but not all, may
\* have reached the file before the write that failed.
failed_writes(f, passwords) ==
    { f \o SubSeq(passwords \o <<NL>>, 1, n) : n \in 0..Len(passwords) }

\* A worker as it is spawned: the arguments of generate_wordlist_part and
\* its locals (start keeps the dict_indexes it was called with).
new_worker(count, dict_indexes) ==
    [pc |-> "loop", nb_of_passwords |-> count, generated |-> 0,
     start |-> dict_indexes, dict_indexes |-> dict_indexes,
     buffer |-> <<>>, ret |-> <<"running">>]

-----------------------------------------------------------------------------
(* Alphabet: dict.rs, create_wordlist_content *)

LOWERCASE ==
    <<"a", "b", "c", "d", "e", "f", "g", "h", "i", "j", "k", "l", "m",
      "n", "o", "p", "q", "r", "s", "t", "u", "v", "w", "x", "y", "z">>
UPPERCASE ==
    <<"A", "B", "C", "D", "E", "F", "G", "H", "I", "J", "K", "L", "M",
      "N", "O", "P", "Q", "R", "S", "T", "U", "V", "W", "X", "Y", "Z">>
NUMBERS == <<"0", "1", "2", "3", "4", "5", "6", "7", "8", "9">>
SPECIAL_CHARACTERS ==
    <<"!", "\"", "#", "$", "%", "&", "'", "(", ")", "*", "+", ",", "-", ".", "/",
      ":", ";", "<", "=", ">", "?", "@", "[", "\\", "]", "_", "{", "|", "}">>

\* The alphabet with the lowercase letters put before the uppercase ones.
create_wordlist_content_lowercase_first(values) ==
    (IF values.lowercase THEN LOWERCASE ELSE <<>>)
        \o (IF values.uppercase THEN UPPERCASE ELSE <<>>)
        \o (IF values.numbers THEN NUMBERS ELSE <<>>)
        \o (IF values.special_characters THEN SPECIAL_CHARACTERS ELSE <<>>)

\* final_dict after the four `if .. { final_dict.extend(..) }`
create_wordlist_content(values) ==
    (IF values.uppercase THEN UPPERCASE ELSE <<>>)
        \o (IF values.lowercase THEN LOWERCASE ELSE <<>>)
        \o (IF values.numbers THEN NUMBERS ELSE <<>>)
        \o (IF values.special_characters THEN SPECIAL_CHARACTERS ELSE <<>>)

-----------------------------------------------------------------------------
(* Argument checks of the front ends: allocate_wordlist_config_cli/_gui *)

\* str::contains(c)
contains(str, c) == \E p \in 1..Len(str) : str[p] = c

\* The check of the classes that lets every command line through.
no_class_chosen_unchecked(values) == FALSE

\* !lowercase && !uppercase && !numbers && !special_characters
no_class_chosen(values) ==
    ~values.lowercase /\ ~values.uppercase /\ ~values.numbers
        /\ ~values.special_characters

\* The arm "-m" | "--mask" on the value that follows it.
check_mask_value(value) ==
    IF value # <<>> /\ value[1] = "-" THEN Err("MissingValue")
    ELSE IF ~contains(value, "?") THEN Err("InvalidMask")
    ELSE Ok(value)

\* u8::MAX
U8_MAX == 255

\* `as u8` of a usize: the low 8 bits.
as_u8(n) == n % (U8_MAX + 1)

\* The value of a decimal digit, by its place in dict::NUMBERS.
digit(c) == (CHOOSE i \in 1..Len(NUMBERS) : NUMBERS[i] = c) - 1

RECURSIVE decimal(_, _)
\* The digits read from the left, acc being the value read so far; the
\* result saturates above u8::MAX, where parse reports an overflow.
decimal(acc, digits) ==
    IF digits = <<>> THEN acc
    ELSE IF acc > U8_MAX THEN acc
    ELSE decimal(acc * 10 + digit(Head(digits)), Tail(digits))

\* value.parse::<u8>(): an optional `+`, then one decimal digit at least,
\* and a value that fits in 8 bits.
parse_u8(value) ==
    LET digits == IF value # <<>> /\ value[1] = "+" THEN Tail(value) ELSE value
    IN  IF digits = <<>> THEN Err("ParseIntError")
        ELSE IF \E i \in 1..Len(digits) : ~contains(NUMBERS, digits[i])
        THEN Err("ParseIntError")
        ELSE IF decimal(0, digits) > U8_MAX THEN Err("ParseIntError")
        ELSE Ok(decimal(0, digits))

\* check_numerical_value::<u8>(value, "-t or --threads", u8::MAX)
check_numerical_value(value) ==
    IF value # <<>> /\ value[1] = "-" THEN Err("MissingValue")
    ELSE LET n == parse_u8(value)
         IN  IF n.ok /\ n.val # 0 THEN n
             ELSE Err("InvalidNumericalValue")

\* let mut threads: u8 = num_cpus::get_physical() as u8, replaced by the
\* value of -t when the option is given.
threads_option(cores, arg) ==
    IF arg.given THEN check_numerical_value(arg.value) ELSE Ok(as_u8(cores))

\* The first error met by the loop over the arguments, if any.
first_error(a, b) ==
    IF ~a.ok THEN a.val ELSE IF ~b.ok THEN b.val ELSE "none"

-----------------------------------------------------------------------------
(* Work partitioner: run_wordlist_generation *)

\* The partition with the remainder dropped.
nb_of_passwd_per_thread_no_rest(total, n, i) == total \div n

\* The partition with the remainder given to the first worker.
nb_of_passwd_per_thread_rest_first(total, n, i) ==
    IF i = 0 THEN (total \div n) + (total % n) ELSE total \div n

\* The partition giving one record to each of the first `total` workers
\* when there are more workers than records.
nb_of_passwd_per_thread_one_each(total, n, i) ==
    IF n > total THEN (IF i < total THEN 1 ELSE 0)
    ELSE IF i = n - 1 THEN (total \div n) + (total % n) ELSE total \div n

\* nb_of_passwd_per_thread as worker i (0-based) receives it.
nb_of_passwd_per_thread(total, n, i) ==
    IF i = n - 1 THEN (total \div n) + (total % n) ELSE total \div n

\* temp advanced one time too few.
RECURSIVE advance_temp_one_short(_, _, _)
advance_temp_one_short(t, count, dict_size) ==
    IF count <= 1 THEN t
    ELSE advance_temp_one_short(advance_from(t, Len(t), dict_size), count - 1, dict_size)

\* for _ in 0..nb_of_passwd_per_thread { advance temp by one }
RECURSIVE advance_temp(_, _, _)
advance_temp(t, count, dict_size) ==
    IF count = 0 THEN t
    ELSE advance_temp(advance_from(t, Len(t), dict_size), count - 1, dict_size)

-----------------------------------------------------------------------------
(* Inputs of the model *)

\* The class booleans behind the small alphabets of Dicts: letters only.
lowercase_only ==
    [uppercase |-> FALSE, lowercase |-> TRUE, numbers |-> FALSE,
     special_characters |-> FALSE]

\* run_wordlist_generation or one of its parts called on its own: no
\* wordlist_generation_scheduler around it, no monitor, a fresh mutex.
\* No -t option on a machine of one core, no benchmark and no password
\* generation under way.
no_threads_option ==
    /\ physical_cores = 1
    /\ threads_arg = [given |-> FALSE, value |-> <<>>]

benchmark_idle ==
    /\ benchmark = [pc |-> "idle", nb_of_threads |-> 0, joined |-> 0,
                    ret |-> <<"none">>]
    /\ elapsed = 0
    /\ shared_signal = TRUE
    /\ shared_passwd_counter = 0
    /\ stress_test = <<>>
    /\ rx_progress_bar = [messages |-> <<>>, closed |-> FALSE]
    /\ progress_bar_thread = [pc |-> "none", seconds |-> 0]

password_idle ==
    /\ password_config = [numbers |-> FALSE, special_characters |-> FALSE,
                          uppercase |-> FALSE, lowercase |-> FALSE,
                          length |-> 0, number_of_passwords |-> 0]
    /\ password_content = <<>>
    /\ random_password = <<>>
    /\ random_passwords = <<>>

features_idle == no_threads_option /\ benchmark_idle /\ password_idle

called_directly ==
    /\ wordlist_values = lowercase_only
    /\ poisoned = FALSE
    /\ scheduler = [pc |-> "none", ret |-> "none"]
    /\ main_thread = <<>>
    /\ runs = 0
    /\ mode = "none"
    /\ features_idle

Dicts == { <<"a">>, <<"a", "b">>, <<"a", "b", "c">> }
RunMasks == { <<"?">>, <<"?", "?">>, <<"\\", "?", "\\", "\\", "a", "?">> }
RunHashes == { "", "sha999" }

-----------------------------------------------------------------------------
(* Specification of a wordlist run *)

Init ==
    /\ mask \in RunMasks
    /\ mask_pos = 0
    /\ mask_st = mask_locals_init
    /\ \E d \in Dicts, h \in RunHashes :
          wordlist_config = [dict |-> d, mask_indexes |-> <<>>,
                             formated_mask |-> <<>>, hash |-> h]
    /\ nb_of_passwords = 0
    /\ nb_of_threads \in 1..MaxThreads
    /\ pc = "mask"
    /\ temp = <<>>
    /\ threads = <<>>
    /\ joined = 0
    /\ result = "none"
    /\ file = <<>>
    /\ GLOBAL_COUNTER = 0
    /\ hash_call = <<>>
    /\ called_directly

\* One character of the loop of format_mask_to_indexes.
format_mask_to_indexes ==
    /\ pc = "mask"
    /\ mask_pos < Len(mask)
    /\ mask_st' = format_mask_char(mask_st, mask[mask_pos + 1])
    /\ mask_pos' = mask_pos + 1
    /\ UNCHANGED <<mask, wordlist_config, nb_of_passwords, nb_of_threads, pc, temp,
                   threads, joined, result, file, GLOBAL_COUNTER, hash_call,
                   caller_vars, feature_vars>>

\* build_wordlist_config returns, and its caller computes
\* nb_of_passwd = dict.len().pow(mask_indexes.len() as u32) as u64: when the
\* power overflows usize the build decides, a panic with overflow checks
\* and the wrapped value without.
build_wordlist_config ==
    /\ pc = "mask"
    /\ mask_pos = Len(mask)
    /\ wordlist_config' = [wordlist_config EXCEPT
                              !.mask_indexes = mask_st.mask_indexes,
                              !.formated_mask = mask_st.formated_mask]
    /\ LET total == usize_pow(Len(wordlist_config.dict), Len(mask_st.mask_indexes))
       IN  \E overflow_checks \in (IF total.overflow THEN BOOLEAN ELSE {FALSE}) :
              IF overflow_checks
              THEN pc' = "panicked" /\ UNCHANGED nb_of_passwords
              ELSE pc' = "open" /\ nb_of_passwords' = total.val
    /\ UNCHANGED <<mask, mask_pos, mask_st, nb_of_threads, temp, threads, joined,
                   result, file, GLOBAL_COUNTER, hash_call,
                   caller_vars, feature_vars>>

\* The open of run_wordlist_generation without the `?` of line 233: the error
\* is recorded and the spawn loop is entered all the same.
open_file_error_ignored ==
    /\ pc = "open"
    /\ scheduler.pc \in {"none", "running"}
    /\ \E opened \in BOOLEAN :
          /\ IF opened
             THEN file' = <<>> /\ UNCHANGED result
             ELSE result' = "UnableToCreateFile" /\ UNCHANGED file
          /\ temp' = [k \in 1..Len(wordlist_config.mask_indexes) |-> 0]
          /\ pc' = "spawn"
    /\ UNCHANGED <<mask, mask_pos, mask_st, wordlist_config, nb_of_passwords,
                   nb_of_threads, threads, joined, GLOBAL_COUNTER, hash_call,
                   caller_vars, feature_vars>>

\* OpenOptions::new().write(true).create(true).truncate(true).open(file_path)
\* run_wordlist_generation is called on its own, or by the scheduler once it
\* has spawned its monitor.  Once the file is open the partition is computed:
\* nb_of_passwords / nb_of_threads panics when nb_of_threads is 0.
open_file ==
    /\ pc = "open"
    /\ scheduler.pc \in {"none", "running"}
    /\ \E opened \in BOOLEAN :
          IF opened
          THEN /\ file' = <<>>
               /\ temp' = [k \in 1..Len(wordlist_config.mask_indexes) |-> 0]
               /\ pc' = IF nb_of_threads = 0 THEN "panicked" ELSE "spawn"
               /\ UNCHANGED result
          ELSE /\ result' = "UnableToCreateFile"
               /\ pc' = "done"
               /\ UNCHANGED <<file, temp>>
    /\ UNCHANGED <<mask, mask_pos, mask_st, wordlist_config, nb_of_passwords,
                   nb_of_threads, threads, joined, GLOBAL_COUNTER, hash_call,
                   caller_vars, feature_vars>>

\* One iteration of `for i in 0..nb_of_threads`: spawn worker i on a clone of
\* temp, then advance temp by that worker's count.
spawn_thread ==
    /\ pc = "spawn"
    /\ LET i == Len(threads)
           count == nb_of_passwd_per_thread(nb_of_passwords, nb_of_threads, i)
       IN  /\ i < nb_of_threads
           /\ threads' = Append(threads, new_worker(count, temp))
           /\ temp' = advance_temp(temp, count, Len(wordlist_config.dict))
           /\ pc' = IF i + 1 = nb_of_threads THEN "join" ELSE "spawn"
    /\ UNCHANGED <<mask, mask_pos, mask_st, wordlist_config, nb_of_passwords,
                   nb_of_threads, joined, result, file, GLOBAL_COUNTER, hash_call,
                   caller_vars, feature_vars>>

\* One iteration of `for thread in threads`: join() returns once the worker
\* has returned; is_err() is true only of a worker that panicked, so the
\* Result the worker returned is dropped.
join_thread ==
    /\ pc = "join"
    /\ joined < Len(threads)
    /\ threads[joined + 1].pc = "done"
    /\ joined' = joined + 1
    /\ IF joined + 1 = Len(threads)
       THEN result' = "Ok" /\ pc' = "done"
       ELSE UNCHANGED <<result, pc>>
    /\ UNCHANGED <<mask, mask_pos, mask_st, wordlist_config, nb_of_passwords,
                   nb_of_threads, temp, threads, file, GLOBAL_COUNTER, hash_call,
                   caller_vars, feature_vars>>

\* The iteration of the worker without the fetch_add of line 355: the record
\* is pushed and not counted.
worker_generate_uncounted(w) ==
    LET t == threads[w]
        cfg == wordlist_config
        line == fill_line(cfg.formated_mask, cfg.mask_indexes, cfg.dict, t.dict_indexes)
        processed == process_line(line, cfg.hash)
    IN  /\ t.pc = "loop"
        /\ t.generated < t.nb_of_passwords
        /\ IF processed.ok
           THEN threads' = [threads EXCEPT ![w] =
                      [t EXCEPT !.dict_indexes = advance_dict_indexes(@, Len(cfg.dict)),
                                !.buffer = Append(@, processed.val),
                                !.generated = @ + 1,
                                !.pc = IF Len(t.buffer) + 1 = BUFFER_SIZE
                                       THEN "flush" ELSE "loop"]]
           ELSE threads' = [threads EXCEPT ![w] =
                      [t EXCEPT !.dict_indexes = advance_dict_indexes(@, Len(cfg.dict)),
                                !.pc = "done", !.ret = processed.val]]
        /\ UNCHANGED <<mask, mask_pos, mask_st, wordlist_config, nb_of_passwords,
                       nb_of_threads, pc, temp, joined, result, file, hash_call,
                       GLOBAL_COUNTER, caller_vars, feature_vars>>

\* One iteration of `for _ in 0..nb_of_passwords` up to the fetch_add: build
\* the line, advance dict_indexes, hash (an error returns), push, count.
worker_generate(w) ==
    LET t == threads[w]
        cfg == wordlist_config
        line == fill_line(cfg.formated_mask, cfg.mask_indexes, cfg.dict, t.dict_indexes)
        processed == process_line(line, cfg.hash)
    IN  /\ t.pc = "loop"
        /\ t.generated < t.nb_of_passwords
        /\ IF processed.ok
           THEN /\ threads' = [threads EXCEPT ![w] =
                      [t EXCEPT !.dict_indexes = advance_dict_indexes(@, Len(cfg.dict)),
                                !.buffer = Append(@, processed.val),
                                !.generated = @ + 1,
                                !.pc = IF Len(t.buffer) + 1 = BUFFER_SIZE
                                       THEN "flush" ELSE "loop"]]
                /\ GLOBAL_COUNTER' = GLOBAL_COUNTER + 1
           ELSE /\ threads' = [threads EXCEPT ![w] =
                      [t EXCEPT !.dict_indexes = advance_dict_indexes(@, Len(cfg.dict)),
                                !.pc = "done", !.ret = processed.val]]
                /\ UNCHANGED GLOBAL_COUNTER
        /\ UNCHANGED <<mask, mask_pos, mask_st, wordlist_config, nb_of_passwords,
                       nb_of_threads, pc, temp, joined, result, file, hash_call,
                   caller_vars, feature_vars>>

\* The flush of a full buffer without the `?` of line 358: the error of the
\* write is kept and the loop goes on.
worker_flush_goes_on(w) ==
    LET t == threads[w]
    IN  /\ t.pc = "flush"
        /\ IF poisoned
           THEN /\ threads' = [threads EXCEPT ![w] =
                      [t EXCEPT !.buffer = <<>>, !.pc = "loop", !.ret = lock_poisoned]]
                /\ UNCHANGED file
           ELSE \E written \in BOOLEAN :
                  IF written
                  THEN /\ file' = save_passwd_to_file(file, join(t.buffer))
                       /\ threads' = [threads EXCEPT ![w] =
                             [t EXCEPT !.buffer = <<>>, !.pc = "loop"]]
                  ELSE /\ threads' = [threads EXCEPT ![w] =
                             [t EXCEPT !.buffer = <<>>, !.pc = "loop",
                                       !.ret = <<"UnableToWriteToFile">>]]
                       /\ file' \in failed_writes(file, join(t.buffer))
        /\ UNCHANGED <<mask, mask_pos, mask_st, wordlist_config, nb_of_passwords,
                       nb_of_threads, pc, temp, joined, result, GLOBAL_COUNTER, hash_call,
                   caller_vars, feature_vars>>

\* if buffer.len() == BUFFER_SIZE { save_passwd_to_file(..)?; buffer.clear() }
\* The write is made under the file's mutex, which may be poisoned; write_all
\* may fail.
worker_flush(w) ==
    LET t == threads[w]
    IN  /\ t.pc = "flush"
        /\ IF poisoned
           THEN /\ threads' = [threads EXCEPT ![w] =
                      [t EXCEPT !.pc = "done", !.ret = lock_poisoned]]
                /\ UNCHANGED file
           ELSE \E written \in BOOLEAN :
                  IF written
                  THEN /\ file' = save_passwd_to_file(file, join(t.buffer))
                       /\ threads' = [threads EXCEPT ![w] =
                             [t EXCEPT !.buffer = <<>>, !.pc = "loop"]]
                  ELSE /\ threads' = [threads EXCEPT ![w] =
                             [t EXCEPT !.pc = "done", !.ret = <<"UnableToWriteToFile">>]]
                       /\ file' \in failed_writes(file, join(t.buffer))
        /\ UNCHANGED <<mask, mask_pos, mask_st, wordlist_config, nb_of_passwords,
                       nb_of_threads, pc, temp, joined, result, GLOBAL_COUNTER, hash_call,
                   caller_vars, feature_vars>>

\* The end of the worker without the test of line 363: the buffer is written
\* even when it is empty.
worker_return_flush_empty(w) ==
    LET t == threads[w]
    IN  /\ t.pc = "loop"
        /\ t.generated = t.nb_of_passwords
        /\ IF poisoned
           THEN /\ threads' = [threads EXCEPT ![w] =
                      [t EXCEPT !.pc = "done", !.ret = lock_poisoned]]
                /\ UNCHANGED file
           ELSE \E written \in BOOLEAN :
                  IF written
                  THEN /\ file' = save_passwd_to_file(file, join(t.buffer))
                       /\ threads' = [threads EXCEPT ![w] =
                             [t EXCEPT !.pc = "done", !.ret = <<"Ok">>]]
                  ELSE /\ threads' = [threads EXCEPT ![w] =
                             [t EXCEPT !.pc = "done", !.ret = <<"UnableToWriteToFile">>]]
                       /\ file' \in failed_writes(file, join(t.buffer))
        /\ UNCHANGED <<mask, mask_pos, mask_st, wordlist_config, nb_of_passwords,
                       nb_of_threads, pc, temp, joined, result, GLOBAL_COUNTER, hash_call,
                   caller_vars, feature_vars>>

\* After the loop: if !buffer.is_empty() { save_passwd_to_file(..)? }  Ok(())
worker_return(w) ==
    LET t == threads[w]
    IN  /\ t.pc = "loop"
        /\ t.generated = t.nb_of_passwords
        /\ IF t.buffer = <<>>
           THEN /\ threads' = [threads EXCEPT ![w] =
                      [t EXCEPT !.pc = "done", !.ret = <<"Ok">>]]
                /\ UNCHANGED file
           ELSE IF poisoned
           THEN /\ threads' = [threads EXCEPT ![w] =
                      [t EXCEPT !.pc = "done", !.ret = lock_poisoned]]
                /\ UNCHANGED file
           ELSE \E written \in BOOLEAN :
                  IF written
                  THEN /\ file' = save_passwd_to_file(file, join(t.buffer))
                       /\ threads' = [threads EXCEPT ![w] =
                             [t EXCEPT !.pc = "done", !.ret = <<"Ok">>]]
                  ELSE /\ threads' = [threads EXCEPT ![w] =
                             [t EXCEPT !.pc = "done", !.ret = <<"UnableToWriteToFile">>]]
                       /\ file' \in failed_writes(file, join(t.buffer))
        /\ UNCHANGED <<mask, mask_pos, mask_st, wordlist_config, nb_of_passwords,
                       nb_of_threads, pc, temp, joined, result, GLOBAL_COUNTER, hash_call,
                   caller_vars, feature_vars>>

generate_wordlist_part ==
    \E w \in 1..Len(threads) :
        \/ worker_generate(w)
        \/ worker_flush(w)
        \/ worker_return(w)

Next ==
    \/ format_mask_to_indexes
    \/ build_wordlist_config
    \/ open_file
    \/ spawn_thread
    \/ join_thread
    \/ generate_wordlist_part

Spec == Init /\ [][Next]_vars

-----------------------------------------------------------------------------
(* Specification of the mask compiler alone, over every short mask *)

MaskChars == { "\\", "?", "a" }
S5Mask == <<"\\", "?", "\\", "\\", "a", "?">>
AllMasks == UNION { [1..n -> MaskChars] : n \in 0..MaxMaskLen } \cup { S5Mask }

InitMask ==
    /\ mask \in AllMasks
    /\ mask_pos = 0
    /\ mask_st = mask_locals_init
    /\ wordlist_config = [dict |-> <<"a">>, mask_indexes |-> <<>>,
                          formated_mask |-> <<>>, hash |-> ""]
    /\ nb_of_passwords = 0
    /\ nb_of_threads = 1
    /\ pc = "mask"
    /\ temp = <<>>
    /\ threads = <<>>
    /\ joined = 0
    /\ result = "none"
    /\ file = <<>>
    /\ GLOBAL_COUNTER = 0
    /\ hash_call = <<>>
    /\ called_directly

SpecMask == InitMask /\ [][format_mask_to_indexes]_vars

-----------------------------------------------------------------------------
(* Specification of one worker called directly, as the unit tests of       *)
(* generate_wordlist_part call it, on any start vector and count           *)

WorkerTemplates ==
    { [formated_mask |-> <<NUL, NUL>>, mask_indexes |-> <<0, 1>>],
      [formated_mask |-> <<"x", NUL>>, mask_indexes |-> <<1>>] }
WorkerDicts == { <<"a", "b">>, <<"a", "b", "c">> }
WorkerHashes == { "", "md5", "sha256", "sha999" }

\* test_generate_wordlist_part_without_hash, .._with_md5_hash, .._with_sha256_hash
TestCalls ==
    { [dict |-> <<"a", "b", "c", "d">>, formated_mask |-> <<NUL, NUL, NUL, NUL>>,
       mask_indexes |-> <<0, 1, 2, 3>>, hash |-> "", count |-> 10,
       start |-> <<0, 0, 0, 0>>],
      [dict |-> <<"0", "1", "2", "3">>, formated_mask |-> <<NUL, NUL>>,
       mask_indexes |-> <<0, 1>>, hash |-> "md5", count |-> 16, start |-> <<0, 0>>],
      [dict |-> <<"0", "1", "2", "3">>, formated_mask |-> <<NUL, NUL>>,
       mask_indexes |-> <<0, 1>>, hash |-> "sha256", count |-> 16, start |-> <<0, 0>>] }

DirectCalls ==
    TestCalls \cup
    { [dict |-> d, formated_mask |-> t.formated_mask, mask_indexes |-> t.mask_indexes,
       hash |-> h, count |-> c, start |-> v] :
         d \in WorkerDicts, t \in WorkerTemplates, h \in WorkerHashes,
         c \in 0..MaxCount, v \in UNION { [1..n -> 0..2] : n \in 1..2 } }

InitWorker ==
    /\ mask = <<>>
    /\ mask_pos = 0
    /\ mask_st = mask_locals_init
    /\ \E call \in DirectCalls :
          /\ Len(call.start) = Len(call.mask_indexes)
          /\ \A k \in 1..Len(call.start) : call.start[k] < Len(call.dict)
          /\ wordlist_config = [dict |-> call.dict, mask_indexes |-> call.mask_indexes,
                                formated_mask |-> call.formated_mask, hash |-> call.hash]
          /\ nb_of_passwords = call.count
          /\ threads = << new_worker(call.count, call.start) >>
    /\ nb_of_threads = 1
    /\ pc = "direct"
    /\ temp = <<>>
    /\ joined = 0
    /\ result = "none"
    /\ file = <<>>
    /\ GLOBAL_COUNTER = 0
    /\ hash_call = <<>>
    /\ wordlist_values = lowercase_only
    /\ poisoned \in BOOLEAN
    /\ scheduler = [pc |-> "none", ret |-> "none"]
    /\ main_thread = <<>>
    /\ runs = 0
    /\ mode = "none"
    /\ features_idle

SpecWorker == InitWorker /\ [][generate_wordlist_part]_vars

-----------------------------------------------------------------------------
(* Specification of direct calls of manage_hash (test_hash_password) *)

HashNames ==
    { "md5", "sha1", "sha224", "sha256", "sha384", "sha512", "sha3-224", "sha3-256",
      "sha3-384", "sha3-512", "blake2b-512", "blake2s-256", "whirlpool",
      "", "MD5", "Sha256", "SHA1", "sha999", "sha-256", "sha3_256", "blake2b",
      "Whirlpool" }
HashPasswords == { <<>>, <<"p">>, <<"0", "0">> }

InitHash ==
    /\ mask = <<>>
    /\ mask_pos = 0
    /\ mask_st = mask_locals_init
    /\ wordlist_config = [dict |-> <<"a">>, mask_indexes |-> <<>>,
                          formated_mask |-> <<>>, hash |-> ""]
    /\ nb_of_passwords = 0
    /\ nb_of_threads = 1
    /\ pc = "hash"
    /\ temp = <<>>
    /\ threads = <<>>
    /\ joined = 0
    /\ result = "none"
    /\ file = <<>>
    /\ GLOBAL_COUNTER = 0
    /\ \E pw \in HashPasswords, h \in HashNames :
          hash_call = [password |-> pw, hash |-> h, returned |-> FALSE, ret |-> Ok(<<>>)]
    /\ called_directly

call_manage_hash ==
    /\ pc = "hash"
    /\ ~hash_call.returned
    /\ hash_call' = [hash_call EXCEPT !.returned = TRUE,
                                      !.ret = manage_hash(hash_call.password, hash_call.hash)]
    /\ UNCHANGED <<mask, mask_pos, mask_st, wordlist_config, nb_of_passwords,
                   nb_of_threads, pc, temp, threads, joined, result, file,
                   GLOBAL_COUNTER,
                   caller_vars, feature_vars>>

SpecHash == InitHash /\ [][call_manage_hash]_vars

-----------------------------------------------------------------------------
(* Specification of the configuration of a run: the argument checks of the *)
(* two front ends, then build_wordlist_config, up to the call of the       *)
(* scheduler. The command lines are `-w [-l] [-u] [-n] [-x] -m MASK -o F`  *)
(* with a valid F; build_wordlist_config is also called on its own, as the *)
(* unit tests call it, on any WordlistValues.                              *)

ConfigMaskChars == { "\\", "?", "a", "-" }
ConfigMasks ==
    UNION { [1..n -> ConfigMaskChars] : n \in 0..MaxArgLen }
        \cup { <<"?", "?", "?", "?">>, <<"\\", "\\", "\\", "?">> }
AllValues ==
    [uppercase : BOOLEAN, lowercase : BOOLEAN, numbers : BOOLEAN,
     special_characters : BOOLEAN]

InitConfig ==
    /\ mask \in ConfigMasks
    /\ mask_pos = 0
    /\ mask_st = mask_locals_init
    /\ wordlist_config = [dict |-> <<>>, mask_indexes |-> <<>>,
                          formated_mask |-> <<>>, hash |-> ""]
    /\ nb_of_passwords = 0
    /\ nb_of_threads = 1
    /\ mode \in {"cli", "gui", "none"}
    /\ pc = (IF mode = "cli" THEN "args" ELSE IF mode = "gui" THEN "gui" ELSE "content")
    /\ temp = <<>>
    /\ threads = <<>>
    /\ joined = 0
    /\ result = "none"
    /\ file = <<>>
    /\ GLOBAL_COUNTER = 0
    /\ hash_call = <<>>
    /\ wordlist_values \in AllValues
    /\ poisoned = FALSE
    /\ scheduler = [pc |-> "none", ret |-> "none"]
    /\ main_thread = <<>>
    /\ runs = 0
    /\ features_idle

\* allocate_wordlist_config_cli: the values of -m and -t are checked inside
\* the loop over the arguments, in the order they are given, the classes
\* after it.
allocate_wordlist_config_cli ==
    /\ pc = "args"
    /\ LET value == check_mask_value(mask)
           number == threads_option(physical_cores, threads_arg)
       IN  \E mask_first \in BOOLEAN :
             LET error == IF mask_first THEN first_error(value, number)
                          ELSE first_error(number, value)
             IN  IF error # "none"
                 THEN result' = error /\ pc' = "done" /\ UNCHANGED nb_of_threads
                 ELSE IF no_class_chosen(wordlist_values)
                 THEN /\ result' = "MissingConfiguration" /\ pc' = "done"
                      /\ UNCHANGED nb_of_threads
                 ELSE /\ pc' = "content"
                      /\ nb_of_threads' = number.val
                      /\ UNCHANGED result
    /\ UNCHANGED <<mask, mask_pos, mask_st, wordlist_config, nb_of_passwords,
                   temp, threads, joined, file, GLOBAL_COUNTER,
                   hash_call, caller_vars, feature_vars>>

\* allocate_wordlist_config_gui: one pass of `while !is_option_chosen`, then
\* of `while !is_valid_mask`; a refused answer is asked again.  The worker
\* count of the GUI is num_cpus::get_physical() as u8.
allocate_wordlist_config_gui ==
    /\ pc = "gui"
    /\ IF no_class_chosen(wordlist_values)
       THEN /\ wordlist_values' \in AllValues
            /\ UNCHANGED <<mask, pc>>
       ELSE IF mask = <<>> \/ ~contains(mask, "?")
       THEN /\ mask' \in ConfigMasks
            /\ UNCHANGED <<wordlist_values, pc>>
       ELSE \E validated \in BOOLEAN :
               IF validated
               THEN pc' = "content" /\ UNCHANGED <<wordlist_values, mask>>
               ELSE mask' \in ConfigMasks /\ UNCHANGED <<wordlist_values, pc>>
    /\ nb_of_threads' = IF pc' = "content" THEN as_u8(physical_cores)
                        ELSE nb_of_threads
    /\ UNCHANGED <<mask_pos, mask_st, wordlist_config, nb_of_passwords,
                   temp, threads, joined, result, file,
                   GLOBAL_COUNTER, hash_call, poisoned, scheduler, main_thread,
                   runs, mode, feature_vars>>

\* build_wordlist_config: let dict = create_wordlist_content(wordlist_values)
call_create_wordlist_content ==
    /\ pc = "content"
    /\ wordlist_config' = [wordlist_config EXCEPT
                              !.dict = create_wordlist_content(wordlist_values)]
    /\ pc' = "mask"
    /\ UNCHANGED <<mask, mask_pos, mask_st, nb_of_passwords, nb_of_threads, temp,
                   threads, joined, result, file, GLOBAL_COUNTER, hash_call,
                   caller_vars, feature_vars>>

NextConfig ==
    \/ allocate_wordlist_config_cli
    \/ allocate_wordlist_config_gui
    \/ call_create_wordlist_content
    \/ format_mask_to_indexes
    \/ build_wordlist_config

SpecConfig == InitConfig /\ [][NextConfig]_vars

-----------------------------------------------------------------------------
(* Specification of a process that makes several wordlist runs in          *)
(* sequence: the loop of main_wordlist_generation calling                  *)
(* wordlist_generation_scheduler, which spawns the monitor thread, calls   *)
(* run_wordlist_generation and joins the monitor. GLOBAL_COUNTER is a      *)
(* static of the process.                                                  *)

SessionDicts == { <<"a", "b">> }
SessionMasks == { <<"?">>, <<"?", "?">> }
SessionThreads == { 1, 2 }     \* num_cpus::get_physical()

\* The monitor thread as it is spawned; last is the value of the counter it
\* loaded last, -1 before its first load.
\* build_wordlist_progress_bar: what the call can do.  The product
\* nb_of_passwd_generated * 100 is a u64: when it does not fit, a build with
\* overflow checks panics and a build without them wraps and draws; the bar
\* itself is written to nothing but the terminal.
build_wordlist_progress_bar(nb_of_passwd_generated, total_nb_of_passwd) ==
    IF nb_of_passwd_generated * 100 > U64_MAX
    THEN {"drawn", "panic"}
    ELSE {"drawn"}

new_main_thread(total) == [pc |-> "poll", nb_of_passwords |-> total, last |-> -1]

InitSession ==
    /\ mask = <<>>
    /\ mask_pos = 0
    /\ mask_st = mask_locals_init
    /\ wordlist_config = [dict |-> <<"a">>, mask_indexes |-> <<>>,
                          formated_mask |-> <<>>, hash |-> ""]
    /\ nb_of_passwords = 0
    /\ nb_of_threads \in SessionThreads
    /\ pc = "menu"
    /\ temp = <<>>
    /\ threads = <<>>
    /\ joined = 0
    /\ result = "none"
    /\ file = <<>>
    /\ GLOBAL_COUNTER = 0
    /\ hash_call = <<>>
    /\ wordlist_values = lowercase_only
    /\ poisoned = FALSE
    /\ scheduler = [pc |-> "menu", ret |-> "none"]
    /\ main_thread = <<>>
    /\ runs = 0
    /\ mode = "gui"
    /\ features_idle

\* One pass of `while again.eq("y")` up to the call of build_wordlist_config,
\* or a new call from the menu after a run that failed: the user gives a new
\* configuration and saving_procedure creates the output file.
main_wordlist_generation ==
    /\ scheduler.pc \in {"menu", "returned"}
    /\ runs < MaxRuns
    /\ mask' \in SessionMasks
    /\ mask_pos' = 0
    /\ mask_st' = mask_locals_init
    /\ \E d \in SessionDicts :
          wordlist_config' = [dict |-> d, mask_indexes |-> <<>>,
                              formated_mask |-> <<>>, hash |-> ""]
    /\ nb_of_passwords' = 0
    /\ pc' = "mask"
    /\ temp' = <<>>
    /\ threads' = <<>>
    /\ joined' = 0
    /\ result' = "none"
    /\ file' = <<>>
    /\ scheduler' = [pc |-> "config", ret |-> "none"]
    /\ runs' = runs + 1
    /\ UNCHANGED <<nb_of_threads, GLOBAL_COUNTER, hash_call, wordlist_values,
                   poisoned, main_thread, mode, feature_vars>>

\* wordlist_generation_scheduler up to the call of run_wordlist_generation:
\* the monitor thread is spawned.
wordlist_generation_scheduler ==
    /\ scheduler.pc = "config"
    /\ pc = "open"
    /\ main_thread' = Append(main_thread, new_main_thread(nb_of_passwords))
    /\ scheduler' = [scheduler EXCEPT !.pc = "running"]
    /\ UNCHANGED <<mask, mask_pos, mask_st, wordlist_config, nb_of_passwords,
                   nb_of_threads, pc, temp, threads, joined, result, file,
                   GLOBAL_COUNTER, hash_call, wordlist_values, poisoned, runs, mode, feature_vars>>

\* The monitor's loop reading the counter with swap(0) instead of load.
main_thread_loop_swap(m) ==
    /\ main_thread[m].pc = "poll"
    /\ \E drawn \in build_wordlist_progress_bar(GLOBAL_COUNTER,
                                                main_thread[m].nb_of_passwords) :
          main_thread' = [main_thread EXCEPT ![m] =
             [pc |-> IF GLOBAL_COUNTER >= main_thread[m].nb_of_passwords THEN "done"
                     ELSE IF drawn = "panic" THEN "panicked"
                     ELSE "poll",
              nb_of_passwords |-> main_thread[m].nb_of_passwords,
              last |-> GLOBAL_COUNTER]]
    /\ GLOBAL_COUNTER' = 0
    /\ UNCHANGED <<mask, mask_pos, mask_st, wordlist_config, nb_of_passwords,
                   nb_of_threads, pc, temp, threads, joined, result, file,
                   hash_call, wordlist_values, poisoned, scheduler, runs, mode, feature_vars>>

\* One test of `while GLOBAL_COUNTER.load(SeqCst) < nb_of_passwords` by the
\* monitor thread m: it returns Ok(()), or draws the bar (the GUI passes
\* no_loading_bar = false) and goes round again, unless the drawing panics.
\* The load of the test and the load passed to the bar are taken as one.
main_thread_loop(m) ==
    /\ main_thread[m].pc = "poll"
    /\ \E drawn \in build_wordlist_progress_bar(GLOBAL_COUNTER,
                                                main_thread[m].nb_of_passwords) :
          main_thread' = [main_thread EXCEPT ![m] =
             [pc |-> IF GLOBAL_COUNTER >= main_thread[m].nb_of_passwords THEN "done"
                     ELSE IF drawn = "panic" THEN "panicked"
                     ELSE "poll",
              nb_of_passwords |-> main_thread[m].nb_of_passwords,
              last |-> GLOBAL_COUNTER]]
    /\ UNCHANGED <<mask, mask_pos, mask_st, wordlist_config, nb_of_passwords,
                   nb_of_threads, pc, temp, threads, joined, result, file,
                   GLOBAL_COUNTER, hash_call, wordlist_values, poisoned,
                   scheduler, runs, mode, feature_vars>>

\* run_wordlist_generation(..)?  then main_thread.join(), which returns once
\* the monitor has returned or panicked; the monitor of a run that failed is
\* not joined.  The payload of a panic is no WorgenXError: ThreadError.
wordlist_generation_scheduler_return ==
    /\ scheduler.pc = "running"
    /\ pc = "done"
    /\ IF result # "Ok"
       THEN scheduler' = [pc |-> "returned", ret |-> result]
       ELSE /\ main_thread[runs].pc \in {"done", "panicked"}
            /\ scheduler' = [pc |-> "returned",
                             ret |-> IF main_thread[runs].pc = "panicked"
                                     THEN "ThreadError" ELSE "Ok"]
    /\ UNCHANGED <<mask, mask_pos, mask_st, wordlist_config, nb_of_passwords,
                   nb_of_threads, pc, temp, threads, joined, result, file,
                   GLOBAL_COUNTER, hash_call, wordlist_values, poisoned,
                   main_thread, runs, mode, feature_vars>>

NextSession ==
    \/ main_wordlist_generation
    \/ format_mask_to_indexes
    \/ build_wordlist_config
    \/ wordlist_generation_scheduler
    \/ \E m \in 1..Len(main_thread) : main_thread_loop(m)
    \/ open_file
    \/ spawn_thread
    \/ generate_wordlist_part
    \/ join_thread
    \/ wordlist_generation_scheduler_return

SpecSession == InitSession /\ [][NextSession]_vars

-----------------------------------------------------------------------------
(* What the properties are stated with *)

\* The lines of a file as str::lines() yields them.
RECURSIVE lines_from(_, _, _)
lines_from(f, cur, acc) ==
    IF f = <<>> THEN (IF cur = <<>> THEN acc ELSE Append(acc, cur))
    ELSE IF Head(f) = NL THEN lines_from(Tail(f), <<>>, Append(acc, cur))
    ELSE lines_from(Tail(f), Append(cur, Head(f)), acc)

Lines(f) == lines_from(f, <<>>, <<>>)

Total == Pow(Len(wordlist_config.dict), Len(wordlist_config.mask_indexes))

\* Digit k (1 = leftmost) of the big-endian base-|alphabet| representation of r.
Digit(r, k) ==
    LET base == Len(wordlist_config.dict)
        len == Len(wordlist_config.mask_indexes)
    IN  (r \div Pow(base, len - k)) % base

IndexVector(r) == [k \in 1..Len(wordlist_config.mask_indexes) |-> Digit(r, k)]

\* The rank of an index vector in the enumeration order.
RECURSIVE ValueOf(_)
ValueOf(v) ==
    IF v = <<>> THEN 0
    ELSE ValueOf(SubSeq(v, 1, Len(v) - 1)) * Len(wordlist_config.dict) + v[Len(v)]

\* The template instantiated with the index vector of rank r.
Instantiation(r) ==
    LET cfg == wordlist_config
    IN  [p \in 1..Len(cfg.formated_mask) |->
            IF \E k \in 1..Len(cfg.mask_indexes) : cfg.mask_indexes[k] = p - 1
            THEN LET k == CHOOSE k \in 1..Len(cfg.mask_indexes) : cfg.mask_indexes[k] = p - 1
                 IN  cfg.dict[Digit(r, k) + 1]
            ELSE cfg.formated_mask[p]]

RECURSIVE SumCounts(_, _)
SumCounts(ts, n) == IF n = 0 THEN 0 ELSE SumCounts(ts, n - 1) + ts[n].nb_of_passwords

AllSpawned == pc \in {"join", "done"} /\ Len(threads) = nb_of_threads

SupportedNames ==
    { "md5", "sha1", "sha224", "sha256", "sha384", "sha512", "sha3-224", "sha3-256",
      "sha3-384", "sha3-512", "blake2b-512", "blake2s-256", "whirlpool" }

-----------------------------------------------------------------------------
(* Properties *)

EachExactlyOnce ==
    LET L == Lines(file)
    IN  /\ Len(L) = Total
        /\ \A r \in 0..(Total - 1) :
              Cardinality({k \in 1..Len(L) : L[k] = Instantiation(r)}) = 1

\* C1: when run_wordlist_generation has returned Ok and no hash is set, the
\* lines of the output file are the instantiations of all index vectors,
\* each exactly once.
C1_EnumerationComplete ==
    (pc = "done" /\ result = "Ok" /\ wordlist_config.hash = ""
        /\ Len(wordlist_config.mask_indexes) >= 1)
    => EachExactlyOnce

\* The same with every worker having returned Ok(()).
EnumerationCompleteWhenWorkersOk ==
    (pc = "done" /\ result = "Ok" /\ wordlist_config.hash = ""
        /\ \A w \in 1..Len(threads) : threads[w].ret = <<"Ok">>)
    => EachExactlyOnce

\* C2: once every worker is spawned, the counts handed to the workers sum
\* to the total handed to run_wordlist_generation.
C2_CountExact ==
    AllSpawned => SumCounts(threads, Len(threads)) = nb_of_passwords

C2_Witness ==
    AllSpawned /\ nb_of_threads = 3 /\ nb_of_passwords = 4
        /\ threads[1].nb_of_passwords = 1 /\ threads[3].nb_of_passwords = 2

\* C3: worker i < N-1 is handed total / N records, worker N-1 is handed
\* total / N + total mod N.
C3_PerWorkerCount ==
    pc \in {"spawn", "join", "done"} =>
        \A w \in 1..Len(threads) :
            threads[w].nb_of_passwords =
                IF w < nb_of_threads
                THEN nb_of_passwords \div nb_of_threads
                ELSE (nb_of_passwords \div nb_of_threads)
                        + (nb_of_passwords % nb_of_threads)

C3_Witness ==
    AllSpawned /\ nb_of_threads = 2 /\ nb_of_passwords = 9
        /\ threads[1].nb_of_passwords = 4 /\ threads[2].nb_of_passwords = 5

\* The ranks worker w is given: [start, start + count).
Range(w) ==
    LET first == ValueOf(threads[w].start)
    IN  first..(first + threads[w].nb_of_passwords - 1)

\* C4: the start vector of worker i is the all-zeros vector advanced
\* sum_{j<i} count_j times; the workers' ranges are contiguous, pairwise
\* disjoint and cover [0, total).
C4_StartVectors ==
    pc \in {"spawn", "join", "done"} =>
        /\ \A w \in 1..Len(threads) :
              /\ threads[w].start = IndexVector(SumCounts(threads, w - 1))
              /\ ValueOf(threads[w].start) = SumCounts(threads, w - 1)
        /\ \A w1 \in 1..Len(threads) : \A w2 \in (w1 + 1)..Len(threads) :
              Range(w1) \cap Range(w2) = {}
        /\ AllSpawned =>
              UNION { Range(w) : w \in 1..Len(threads) } = 0..(nb_of_passwords - 1)

C4_Witness ==
    AllSpawned /\ nb_of_threads = 3 /\ nb_of_passwords = 9
        /\ threads[2].start = <<1, 0>> /\ threads[3].start = <<2, 0>>

\* C5 as stated: with N > total the first `total` workers get 1 record each
\* and the others none.
C5_OneRecordEach ==
    (AllSpawned /\ nb_of_threads > nb_of_passwords) =>
        \A w \in 1..Len(threads) :
            threads[w].nb_of_passwords = IF w <= nb_of_passwords THEN 1 ELSE 0

\* C5 amended: with N > total every worker but the last gets no record and
\* the last worker gets all `total` records.
C5_LastWorkerTakesAll ==
    (AllSpawned /\ nb_of_threads > nb_of_passwords) =>
        \A w \in 1..Len(threads) :
            threads[w].nb_of_passwords =
                IF w = nb_of_threads THEN nb_of_passwords ELSE 0

C5_Witness ==
    AllSpawned /\ nb_of_threads = 3 /\ nb_of_passwords = 2
        /\ threads[3].nb_of_passwords = 2 /\ threads[3].pc = "done"
        /\ threads[3].ret = <<"Ok">> /\ Len(Lines(file)) = 2

\* C6: with N = 1 and no hash, once the worker has returned Ok(()) line r
\* of the file is the instantiation of the index vector of rank r.
C6_CanonicalOrder ==
    (pc \in {"join", "done"} /\ nb_of_threads = 1 /\ wordlist_config.hash = ""
        /\ Len(threads) = 1 /\ threads[1].pc = "done" /\ threads[1].ret = <<"Ok">>)
    => Lines(file) = [r \in 1..Total |-> Instantiation(r - 1)]

C6_Witness ==
    /\ pc = "done" /\ nb_of_threads = 1 /\ wordlist_config.hash = ""
    /\ Len(threads) = 1 /\ threads[1].ret = <<"Ok">> /\ Total = 9
    /\ Len(file) = 27

\* The plain record of the k-th iteration (k >= 1) of the worker called directly.
DirectPlain(k) == Instantiation(ValueOf(threads[1].start) + k - 1)

RECURSIVE Terminated(_)
Terminated(records) ==
    IF records = <<>> THEN <<>> ELSE Head(records) \o <<NL>> \o Terminated(Tail(records))

\* C7: a worker called with start vector v and count c, no hash, that has
\* returned Ok(()) has written the instantiations of v, v+1, .., v+c-1 in
\* that order, each followed by a newline.
C7_WorkerSlice ==
    (pc = "direct" /\ wordlist_config.hash = ""
        /\ threads[1].pc = "done" /\ threads[1].ret = <<"Ok">>)
    => file = Terminated([k \in 1..threads[1].nb_of_passwords |-> DirectPlain(k)])

C7_Witness ==
    /\ pc = "direct" /\ wordlist_config.dict = <<"a", "b", "c", "d">>
    /\ threads[1].pc = "done" /\ threads[1].ret = <<"Ok">>
    /\ Lines(file) = << <<"a","a","a","a">>, <<"a","a","a","b">>, <<"a","a","a","c">>,
                        <<"a","a","a","d">>, <<"a","a","b","a">>, <<"a","a","b","b">>,
                        <<"a","a","b","c">>, <<"a","a","b","d">>, <<"a","a","c","a">>,
                        <<"a","a","c","b">> >>

\* The records the worker called directly has emitted so far: those written
\* and, while it runs, those still buffered.
DirectEmitted ==
    Lines(file) \o (IF threads[1].pc = "done" THEN <<>> ELSE threads[1].buffer)

\* C8: with a hash algorithm set the k-th record emitted is the digest
\* manage_hash gives for the k-th plain instantiation, with the same count;
\* with the empty name it is the plain instantiation.
C8_HashedRecords ==
    (pc = "direct" /\ threads[1].ret # <<"UnableToWriteToFile">>) =>
        LET t == threads[1]
            h == wordlist_config.hash
        IN  /\ h = "" =>
                DirectEmitted = [k \in 1..t.generated |-> DirectPlain(k)]
            /\ h \in SupportedNames =>
                DirectEmitted = [k \in 1..t.generated |-> manage_hash(DirectPlain(k), h).val]
            /\ (h = "" \/ h \in SupportedNames) /\ t.pc = "done" =>
                Len(Lines(file)) = t.nb_of_passwords

C8_Witness ==
    /\ pc = "direct" /\ wordlist_config.hash = "md5"
    /\ threads[1].pc = "done" /\ threads[1].ret = <<"Ok">>
    /\ Len(Lines(file)) = 16
    /\ Lines(file)[1] = <<"hex", "Md5", "0", "0">>
    /\ Lines(file)[16] = <<"hex", "Md5", "3", "3">>

\* C9: manage_hash returns a digest exactly for the 13 supported names, and
\* UnsupportedHashAlgorithm carrying the name for every other name.
C9_SupportedNames ==
    (pc = "hash" /\ hash_call.returned) =>
        /\ hash_call.ret.ok <=> hash_call.hash \in SupportedNames
        /\ hash_call.ret.ok => hash_call.ret.val[1] = "hex"
        /\ ~hash_call.ret.ok =>
              hash_call.ret.val = <<"UnsupportedHashAlgorithm", hash_call.hash>>

C9_Witness ==
    /\ pc = "hash" /\ hash_call.returned /\ hash_call.hash = "MD5"
    /\ hash_call.ret = Err(<<"UnsupportedHashAlgorithm", "MD5">>)

Literal(c) == [kind |-> "LITERAL", char |-> c]
Slot == [kind |-> "SLOT", char |-> NUL]

\* The parsing rules of the mask, read from the left.
RECURSIVE ParseRules(_)
ParseRules(m) ==
    IF m = <<>> THEN <<>>
    ELSE IF Len(m) >= 2 /\ m[1] = "\\" /\ m[2] = "\\"
         THEN <<Literal("\\")>> \o ParseRules(SubSeq(m, 3, Len(m)))
    ELSE IF Len(m) >= 2 /\ m[1] = "\\" /\ m[2] = "?"
         THEN <<Literal("?")>> \o ParseRules(SubSeq(m, 3, Len(m)))
    ELSE IF m[1] = "?"
         THEN <<Slot>> \o ParseRules(Tail(m))
    ELSE <<Literal(m[1])>> \o ParseRules(Tail(m))

\* The template the compiler built, cell by cell.
CompiledCells ==
    [p \in 1..Len(mask_st.formated_mask) |->
        IF \E k \in 1..Len(mask_st.mask_indexes) : mask_st.mask_indexes[k] = p - 1
        THEN Slot
        ELSE Literal(mask_st.formated_mask[p])]

SlotPositions(cells) ==
    LET S == {p \in 1..Len(cells) : cells[p] = Slot}
        nth[k \in 1..Cardinality(S)] ==
            CHOOSE p \in S : Cardinality({q \in S : q < p}) = k - 1
    IN  [k \in 1..Cardinality(S) |-> nth[k] - 1]

\* C10: every mask compiles to the template and slot list the parsing rules give.
C10_MaskRules ==
    (pc = "mask" /\ mask_pos = Len(mask)) =>
        /\ CompiledCells = ParseRules(mask)
        /\ mask_st.mask_indexes = SlotPositions(ParseRules(mask))

\* A backslash followed by anything but a backslash or a question mark.
RECURSIVE HasLoneBackslash(_)
HasLoneBackslash(m) ==
    IF m = <<>> THEN FALSE
    ELSE IF m[1] = "\\"
         THEN IF Len(m) >= 2 /\ m[2] \in {"\\", "?"}
              THEN HasLoneBackslash(SubSeq(m, 3, Len(m)))
              ELSE TRUE
    ELSE HasLoneBackslash(Tail(m))

\* The rules hold of every mask whose backslashes all escape `\` or `?`.
MaskRulesWhenWellEscaped ==
    (pc = "mask" /\ mask_pos = Len(mask) /\ ~HasLoneBackslash(mask)) =>
        /\ CompiledCells = ParseRules(mask)
        /\ mask_st.mask_indexes = SlotPositions(ParseRules(mask))

S5Compiled ==
    (pc = "mask" /\ mask = S5Mask /\ mask_pos = Len(mask)) =>
        /\ CompiledCells = <<Literal("?"), Literal("\\"), Literal("a"), Slot>>
        /\ mask_st.mask_indexes = <<3>>

\* The mask ends with a backslash that escapes nothing and is not itself
\* escaped, reading the mask from the left.
RECURSIVE DanglingBackslash(_)
DanglingBackslash(m) ==
    IF m = <<>> THEN FALSE
    ELSE IF m[1] = "\\"
         THEN IF Len(m) = 1 THEN TRUE
              ELSE IF m[2] \in {"\\", "?"}
                   THEN DanglingBackslash(SubSeq(m, 3, Len(m)))
                   ELSE DanglingBackslash(Tail(m))
    ELSE DanglingBackslash(Tail(m))

\* C11: a mask whose last character is an unescaped backslash compiles to a
\* template whose last cell is the literal backslash.
C11_DanglingBackslash ==
    (pc = "mask" /\ mask_pos = Len(mask) /\ DanglingBackslash(mask)) =>
        /\ CompiledCells # <<>>
        /\ CompiledCells[Len(CompiledCells)] = Literal("\\")

\* What the compiler does with it: a last backslash that leaves `escaped`
\* set has pushed nothing, so the template is that of the mask without it.
DanglingBackslashDropped ==
    (pc = "mask" /\ mask_pos = Len(mask) /\ mask # <<>> /\ mask[Len(mask)] = "\\"
        /\ mask_st.escaped) =>
        LET shorter == format_mask_from(mask_locals_init, SubSeq(mask, 1, Len(mask) - 1))
        IN  /\ mask_st.formated_mask = shorter.formated_mask
            /\ mask_st.mask_indexes = shorter.mask_indexes

\* The mask has an unescaped `?`: one of its cells is a slot under the
\* parsing rules.
HasSlot(m) == \E p \in 1..Len(ParseRules(m)) : ParseRules(m)[p] = Slot

\* A front end let the configuration through: build_wordlist_config is
\* called, then the scheduler.
Accepted == mode \in {"cli", "gui"} /\ pc \in {"content", "mask", "open"}

\* None of the four classes is enabled in the WordlistValues.
NoClassEnabled ==
    \A class \in {"uppercase", "lowercase", "numbers", "special_characters"} :
        ~wordlist_values[class]

\* C12: a mask that is empty or has no unescaped `?` is never let through by
\* a front end, and the command line rejects it with InvalidMask.
C12_InvalidMaskRejected ==
    /\ Accepted => HasSlot(mask)
    /\ (mode = "cli" /\ pc = "done" /\ ~HasSlot(mask) /\ ~NoClassEnabled
            /\ (mask = <<>> \/ mask[1] # "-"))
        => result = "InvalidMask"

\* What the front ends check: the mask has a `?`, escaped or not.
QuestionMarkRequired ==
    /\ Accepted => contains(mask, "?")
    /\ (mode = "cli" /\ pc = "done" /\ ~contains(mask, "?")
            /\ (mask = <<>> \/ mask[1] # "-"))
        => result = "InvalidMask"

\* A mask made of escapes only reaches the scheduler with no slot and a
\* total of one record.
EscapesOnlyAccepted ==
    /\ mode = "cli" /\ pc = "open" /\ mask = <<"\\", "\\", "\\", "?">>
    /\ wordlist_config.mask_indexes = <<>>
    /\ wordlist_config.formated_mask = <<"\\", "?">>
    /\ nb_of_passwords = 1

\* The sum of the lengths of the enabled classes among the first n of
\* uppercase, lowercase, numbers, special characters.
ClassesBefore(values, n) ==
    (IF n > 0 /\ values.uppercase THEN Len(UPPERCASE) ELSE 0)
        + (IF n > 1 /\ values.lowercase THEN Len(LOWERCASE) ELSE 0)
        + (IF n > 2 /\ values.numbers THEN Len(NUMBERS) ELSE 0)
        + (IF n > 3 /\ values.special_characters THEN Len(SPECIAL_CHARACTERS) ELSE 0)

\* The class is in the alphabet d, whole and in its own order, right after
\* the enabled classes that come before it.
ClassAt(d, class, offset) ==
    /\ Len(d) >= offset + Len(class)
    /\ SubSeq(d, offset + 1, offset + Len(class)) = class

\* C13: the alphabet is the enabled classes, whole, in the order uppercase,
\* lowercase, numbers, special characters, and nothing else; no character
\* occurs twice; with the four classes it has 91 characters.
C13_Alphabet ==
    pc \in {"mask", "open"} =>
        LET d == wordlist_config.dict
            v == wordlist_values
        IN  /\ Len(d) = ClassesBefore(v, 4)
            /\ v.uppercase => ClassAt(d, UPPERCASE, ClassesBefore(v, 0))
            /\ v.lowercase => ClassAt(d, LOWERCASE, ClassesBefore(v, 1))
            /\ v.numbers => ClassAt(d, NUMBERS, ClassesBefore(v, 2))
            /\ v.special_characters => ClassAt(d, SPECIAL_CHARACTERS, ClassesBefore(v, 3))
            /\ \A i \in 1..Len(d) : \A j \in (i + 1)..Len(d) : d[i] # d[j]
            /\ (v.uppercase /\ v.lowercase /\ v.numbers /\ v.special_characters)
                  => Len(d) = 91

\* test_build_wordlist_config
C13_Witness ==
    /\ pc = "open" /\ mode = "none" /\ mask = <<"?", "?", "?", "?">>
    /\ wordlist_values = [uppercase |-> TRUE, lowercase |-> TRUE, numbers |-> TRUE,
                          special_characters |-> TRUE]
    /\ Len(wordlist_config.dict) = 91
    /\ wordlist_config.dict[1] = "A" /\ wordlist_config.dict[27] = "a"
    /\ wordlist_config.dict[53] = "0" /\ wordlist_config.dict[63] = "!"
    /\ wordlist_config.dict[91] = "}"
    /\ wordlist_config.mask_indexes = <<0, 1, 2, 3>>

CommandLineRejected ==
    /\ NoClassEnabled /\ mode = "cli" /\ pc = "done"
    /\ mask = <<"?", "?">> /\ result = "MissingConfiguration"

NoFailedWrite ==
    \A w \in 1..Len(threads) : threads[w].ret # <<"UnableToWriteToFile">>

CutRecordAfterFailedWrite ==
    /\ pc = "done" /\ ~NoFailedWrite
    /\ file # <<>> /\ file[Len(file)] # NL

\* The records emitted so far by the workers of the current run.
RECURSIVE SumGenerated(_, _)
SumGenerated(ts, n) == IF n = 0 THEN 0 ELSE SumGenerated(ts, n - 1) + ts[n].generated

RunStarted == scheduler.pc \in {"running", "returned"}
ReturnedOk == scheduler = [pc |-> "returned", ret |-> "Ok"]

\* C16: during a run the counter is the number of records emitted by the
\* workers of the run, and when the scheduler returns Ok it is the total.
C16_CounterCountsRecords ==
    RunStarted =>
        /\ GLOBAL_COUNTER = SumGenerated(threads, Len(threads))
        /\ ReturnedOk => GLOBAL_COUNTER = nb_of_passwords

\* The counter never decreases, and it changes only by a worker emitting one
\* record, by exactly one.
CounterStepsByOne ==
    [][/\ GLOBAL_COUNTER' >= GLOBAL_COUNTER
       /\ GLOBAL_COUNTER' # GLOBAL_COUNTER =>
             /\ GLOBAL_COUNTER' = GLOBAL_COUNTER + 1
             /\ Len(threads') = Len(threads)
             /\ SumGenerated(threads', Len(threads)) =
                   SumGenerated(threads, Len(threads)) + 1
       /\ (Len(threads') = Len(threads)
             /\ SumGenerated(threads', Len(threads)) # SumGenerated(threads, Len(threads)))
          => GLOBAL_COUNTER' = GLOBAL_COUNTER + 1]_vars

\* The first run of the process counts from 0 to its total.
FirstRunCounter ==
    (runs = 1 /\ RunStarted) =>
        /\ GLOBAL_COUNTER = SumGenerated(threads, Len(threads))
        /\ ReturnedOk => GLOBAL_COUNTER = nb_of_passwords

\* A second run has returned Ok with the counter at the sum of the totals of
\* the two runs.
SecondRunCounter ==
    /\ runs = 2 /\ ReturnedOk /\ nb_of_passwords = 2 /\ GLOBAL_COUNTER = 4
    /\ SumGenerated(threads, Len(threads)) = 2

\* C17: every run starts with the counter at 0, and its monitor loads values
\* from 0 up to the total of the run, the total last.
C17_CounterResetEachRun ==
    /\ (scheduler.pc = "running" /\ pc = "open") => GLOBAL_COUNTER = 0
    /\ RunStarted =>
          /\ main_thread[runs].last <= nb_of_passwords
          /\ ReturnedOk => main_thread[runs].last = nb_of_passwords

\* The same of the first run only.
FirstRunFromZero ==
    runs = 1 =>
        /\ (scheduler.pc = "running" /\ pc = "open") => GLOBAL_COUNTER = 0
        /\ RunStarted =>
              /\ main_thread[runs].last <= nb_of_passwords
              /\ ReturnedOk => main_thread[runs].last = nb_of_passwords

\* The counter is never written but by the fetch_add of a worker: a second
\* run starts with the counter where the first one left it, and its monitor
\* returns at its first test without a record being emitted.
SecondRunStartsWhereFirstEnded ==
    /\ runs = 2 /\ scheduler.pc = "running" /\ pc = "open"
    /\ GLOBAL_COUNTER = 2 /\ nb_of_passwords = 2
    /\ main_thread[2] = [pc |-> "done", nb_of_passwords |-> 2, last |-> 2]

\* A worker of the current run has returned an error.
WorkerFailed(w) == threads[w].pc = "done" /\ threads[w].ret # <<"Ok">>

\* C18: when a worker has returned an error the scheduler does not return
\* Ok: it returns that worker's error.
C18_WorkerErrorFailsRun ==
    (scheduler.pc = "returned" /\ \E w \in 1..Len(threads) : WorkerFailed(w)) =>
        /\ scheduler.ret # "Ok"
        /\ \E w \in 1..Len(threads) : threads[w].ret = <<scheduler.ret>>

\* The only errors the scheduler returns: the file could not be created, or
\* the monitor panicked.
SchedulerErrors ==
    scheduler.pc = "returned" =>
        scheduler.ret \in {"Ok", "UnableToCreateFile", "ThreadError"}

\* A worker failed before its last record: run_wordlist_generation has
\* returned Ok, the counter stays below the total, the monitor never
\* returns and the scheduler stays in main_thread.join().
SchedulerBlocked ==
    /\ scheduler.pc = "running" /\ pc = "done" /\ result = "Ok"
    /\ \E w \in 1..Len(threads) : WorkerFailed(w)
    /\ GLOBAL_COUNTER < nb_of_passwords
    /\ main_thread[runs].pc = "poll"

\* C19: when run_wordlist_generation returns after a worker has failed,
\* every worker has been joined and has returned, and the error returned is
\* the one of the first failed worker in join order.
C19_FailedRunJoinsAll ==
    (pc = "done" /\ \E w \in 1..Len(threads) : WorkerFailed(w)) =>
        /\ joined = Len(threads)
        /\ \A w \in 1..Len(threads) : threads[w].pc = "done"
        /\ result = threads[Min({w \in 1..Len(threads) : WorkerFailed(w)})].ret[1]

\* What holds of the join loop: when run_wordlist_generation returns after
\* the spawn loop, every worker has been joined and has returned, and the
\* result is Ok whatever the workers returned.
EveryWorkerJoined ==
    (pc = "done" /\ threads # <<>>) =>
        /\ Len(threads) = nb_of_threads
        /\ joined = Len(threads)
        /\ \A w \in 1..Len(threads) : threads[w].pc = "done"
        /\ result = "Ok"

\* Two workers have failed and the run has returned Ok.
TwoWorkersFailed ==
    /\ pc = "done" /\ result = "Ok" /\ Len(threads) = 2
    /\ WorkerFailed(1) /\ WorkerFailed(2)

\* The worker called directly has called save_passwd_to_file.
DirectWorkerLocked ==
    /\ pc = "direct" /\ threads[1].pc = "done" /\ threads[1].generated >= 1
    /\ (wordlist_config.hash = "" \/ wordlist_config.hash \in SupportedNames)

PoisonIsWriteError ==
    (DirectWorkerLocked /\ poisoned) =>
        /\ threads[1].ret = <<"UnableToWriteToFile">>
        /\ file = <<>>
        /\ threads[1].generated = Min({BUFFER_SIZE, threads[1].nb_of_passwords})

PoisonedWorkerReturned ==
    /\ DirectWorkerLocked /\ poisoned /\ threads[1].nb_of_passwords = 5
    /\ threads[1].generated = 2 /\ threads[1].ret = <<"UnableToWriteToFile">>

-----------------------------------------------------------------------------
(* The process of SpecSession under a fair scheduler: every thread that can *)
(* take a step eventually takes one. Whether the user starts another run   *)
(* is left to the user.                                                    *)

\* A step of worker w of the current run.
worker_step(w) ==
    /\ w \in 1..Len(threads)
    /\ (worker_generate(w) \/ worker_flush(w) \/ worker_return(w))

\* A step of the monitor thread of run m.
monitor_step(m) ==
    /\ m \in 1..Len(main_thread)
    /\ main_thread_loop(m)

\* A step of the thread that runs the scheduler.
scheduler_step ==
    \/ format_mask_to_indexes
    \/ build_wordlist_config
    \/ wordlist_generation_scheduler
    \/ open_file
    \/ spawn_thread
    \/ join_thread
    \/ wordlist_generation_scheduler_return

FairThreads ==
    /\ WF_vars(scheduler_step)
    /\ \A w \in SessionThreads : WF_vars(worker_step(w))
    /\ \A m \in 1..MaxRuns : WF_vars(monitor_step(m))

SpecSessionFair == InitSession /\ [][NextSession]_vars /\ FairThreads

\* C21: under fair scheduling every run whose scheduler has been called
\* eventually returns, Ok or an error.
C21_RunTerminates ==
    (scheduler.pc = "running") ~> (scheduler.pc = "returned")

\* What holds: the monitor returns at the first test that finds the counter
\* at the total or above.
MonitorStopsAtTotal ==
    [][\A m \in 1..Len(main_thread) :
          (main_thread[m].pc = "poll" /\ main_thread'[m] # main_thread[m]) =>
              /\ main_thread'[m].last = GLOBAL_COUNTER
              /\ main_thread'[m].pc = "done"
                    <=> GLOBAL_COUNTER >= main_thread[m].nb_of_passwords]_vars

\* What holds: every run returns, or ends with a failed worker, the counter
\* below the total and the scheduler waiting for the monitor.
RunTerminatesOrBlocks ==
    (scheduler.pc = "running") ~> (scheduler.pc = "returned" \/ SchedulerBlocked)

-----------------------------------------------------------------------------
(* C22: the output file is opened once, before any worker exists *)

NothingStarted == threads = <<>> /\ GLOBAL_COUNTER = 0 /\ file = <<>>

\* C22: a run opens its output file once and before any worker is spawned:
\* until the open has succeeded there is no worker, no record in the file and
\* no increment of the counter; the open is never reached again once left;
\* and a run whose open failed has returned UnableToCreateFile with no worker
\* spawned, no record written and the counter not incremented.
C22_OpenBeforeWorkers ==
    /\ [](pc \in {"mask", "open"} => NothingStarted)
    /\ [](result = "UnableToCreateFile" => pc = "done" /\ NothingStarted)
    /\ [][pc' = "open" => pc \in {"mask", "open"}]_vars
    /\ [][(pc = "open" /\ pc' = "spawn") => file' = <<>>]_vars

C22_OpenFailed ==
    /\ result = "UnableToCreateFile"
    /\ pc = "done"
    /\ nb_of_passwords > 0

WorkersAfterOpen ==
    /\ pc = "join"
    /\ Len(threads) = nb_of_threads
    /\ GLOBAL_COUNTER > 0
    /\ result = "none"

-----------------------------------------------------------------------------
(* C23: flushes are whole batches, appended one at a time *)

\* The records worker w holds in its buffer, by rank: the last Len(buffer)
\* of the `generated` records it has produced from its start vector.
Batch(w) ==
    LET t == threads[w]
        first == ValueOf(t.start) + t.generated - Len(t.buffer)
    IN  [k \in 1..Len(t.buffer) |-> Instantiation(first + k - 1)]

\* The rank of a record of the file (the alphabets have distinct characters).
RankOf(line) == CHOOSE r \in 0..(Total - 1) : Instantiation(r) = line

\* The step appends the batch of worker w, whole, or part of it when the
\* write fails, and is a step of no other worker.
FlushOf(w) ==
    LET block == Terminated(Batch(w))
    IN  /\ threads[w].buffer = Batch(w)
        /\ threads[w].buffer # <<>>
        /\ \A v \in 1..Len(threads) : v # w => threads'[v] = threads[v]
        /\ \/ /\ file' = file \o block
              /\ threads'[w].ret # <<"UnableToWriteToFile">>
           \/ /\ \E n \in 0..(Len(block) - 1) : file' = file \o SubSeq(block, 1, n)
              /\ threads'[w].ret = <<"UnableToWriteToFile">>

\* C23: the file changes only by a flush of one worker, which appends that
\* worker's buffered batch as one block, in enumeration order, after
\* everything written before (a flush stopped by a write error appends a
\* part of the block and ends the worker).  In a finished run without write
\* error the records of one worker stand in the file in the order it
\* produced them, and the records of one batch are adjacent: only whole
\* batches of different workers alternate.
C23_FlushesAreBlocks ==
    /\ [][file' # file => \E w \in 1..Len(threads) : FlushOf(w)]_vars
    /\ [](  (pc = "done" /\ result = "Ok" /\ NoFailedWrite /\ wordlist_config.hash = "")
         => LET lines == Lines(file)
                rank == [p \in 1..Len(lines) |-> RankOf(lines[p])]
            IN  /\ Len(lines) = Total
                /\ \A p \in 1..Len(lines) : lines[p] = Instantiation(rank[p])
                /\ \A w \in 1..Len(threads) :
                     \A p \in 1..Len(lines), q \in 1..Len(lines) :
                        (rank[p] \in Range(w) /\ rank[q] \in Range(w) /\ p < q)
                            => rank[p] < rank[q]
                /\ \A w \in 1..Len(threads) : \A p \in 1..Len(lines) :
                     LET k == rank[p] - ValueOf(threads[w].start)
                     IN  (rank[p] \in Range(w) /\ k % BUFFER_SIZE # BUFFER_SIZE - 1
                             /\ k + 1 < threads[w].nb_of_passwords)
                         => (p < Len(lines) /\ rank[p + 1] = rank[p] + 1) )

\* Three workers of three records each have flushed alternately: the file
\* holds whole batches of different workers in turn.
C23_Witness ==
    /\ pc = "done" /\ result = "Ok" /\ NoFailedWrite
    /\ nb_of_threads = 3 /\ Total = 9 /\ Len(Lines(file)) = 9
    /\ Lines(file)[1] = Instantiation(3)
    /\ Lines(file)[2] = Instantiation(4)
    /\ Lines(file)[3] = Instantiation(0)
    /\ Lines(file)[4] = Instantiation(1)
    /\ Lines(file)[5] = Instantiation(6)
    /\ Lines(file)[7] = Instantiation(5)
    /\ Lines(file)[8] = Instantiation(2)

-----------------------------------------------------------------------------
(* C24: the monitor only reads *)

\* The step is one of monitor m: its record changes.
MonitorMoves(m) ==
    /\ m \in 1..Len(main_thread')
    /\ main_thread'[m] # main_thread[m]

\* C24: a step of the progress monitor leaves the counter, the file, the
\* alphabet, the template and the slot indexes as they were, as well as the
\* workers and the scheduler: it changes nothing but its own record.
C24_MonitorOnlyReads ==
    [][(\E m \in 1..Len(main_thread) : MonitorMoves(m)) =>
            /\ GLOBAL_COUNTER' = GLOBAL_COUNTER
            /\ file' = file
            /\ wordlist_config' = wordlist_config
            /\ threads' = threads
            /\ <<pc, result, scheduler, temp, joined>>' = <<pc, result, scheduler, temp, joined>>]_vars

\* The monitor has sampled the counter in the middle of a run, with records
\* already in the file.
C24_Witness ==
    /\ scheduler.pc = "running"
    /\ runs = 1
    /\ main_thread[1].pc = "poll"
    /\ main_thread[1].last = 2
    /\ GLOBAL_COUNTER = 3
    /\ file # <<>>

-----------------------------------------------------------------------------
(* C25: a monitor that fails *)

AllWorkersOk ==
    /\ Len(threads) = nb_of_threads
    /\ \A w \in 1..Len(threads) : threads[w].pc = "done" /\ threads[w].ret = <<"Ok">>

\* C25: a run whose file was opened and whose workers have all returned
\* Ok(()) returns Ok, whatever happened to its monitor thread.
C25_MonitorFailureNotFatal ==
    (scheduler.pc = "returned" /\ result = "Ok" /\ AllWorkersOk) => scheduler.ret = "Ok"

\* What the code does: such a run returns Ok exactly when its monitor
\* returned, and ThreadError when its monitor panicked.
MonitorPanicIsThreadError ==
    (scheduler.pc = "returned" /\ result = "Ok" /\ AllWorkersOk) =>
        /\ main_thread[runs].pc \in {"done", "panicked"}
        /\ scheduler.ret = IF main_thread[runs].pc = "panicked" THEN "ThreadError" ELSE "Ok"

\* Every record of the run is in the file and the run has returned an error.
CompleteFileAndError ==
    /\ scheduler = [pc |-> "returned", ret |-> "ThreadError"]
    /\ AllWorkersOk
    /\ Len(Lines(file)) = nb_of_passwords
    /\ nb_of_passwords = 4

-----------------------------------------------------------------------------
(* The CPU benchmark: benchmark.rs *)

\* `while start.elapsed().as_secs() <= 60`: the length of the test in
\* seconds, scaled down (the code only compares the elapsed seconds with it).
BENCHMARK_SECONDS == 1

\* Duration::as_secs of a time kept in half seconds.
as_secs(half_seconds) == half_seconds \div 2

\* The worker counts load_cpu_benchmark is called with (a u8).
BenchmarkThreads == 0..2

\* *counter += nb_of_passwd, with every contribution but the first lost.
add_to_counter_first_only(counter, nb_of_passwd) ==
    IF counter = 0 THEN nb_of_passwd ELSE counter

\* *counter += nb_of_passwd
add_to_counter(counter, nb_of_passwd) == counter + nb_of_passwd

InitBenchmark ==
    /\ mask = <<>>
    /\ mask_pos = 0
    /\ mask_st = mask_locals_init
    /\ wordlist_config = [dict |-> <<"a">>, mask_indexes |-> <<>>,
                          formated_mask |-> <<>>, hash |-> ""]
    /\ nb_of_passwords = 0
    /\ nb_of_threads = 1
    /\ pc = "menu"
    /\ temp = <<>>
    /\ threads = <<>>
    /\ joined = 0
    /\ result = "none"
    /\ file = <<>>
    /\ GLOBAL_COUNTER = 0
    /\ hash_call = <<>>
    /\ wordlist_values = lowercase_only
    /\ poisoned = FALSE
    /\ scheduler = [pc |-> "none", ret |-> "none"]
    /\ main_thread = <<>>
    /\ runs = 0
    /\ mode = "gui"
    /\ no_threads_option
    /\ password_idle
    /\ \E n \in BenchmarkThreads :
          benchmark = [pc |-> "call", nb_of_threads |-> n, joined |-> 0,
                       ret |-> <<"none">>]
    /\ elapsed = 0
    /\ shared_signal = TRUE
    /\ shared_passwd_counter = 0
    /\ stress_test = <<>>
    /\ rx_progress_bar = [messages |-> <<>>, closed |-> FALSE]
    /\ progress_bar_thread = [pc |-> "none", seconds |-> 0]

\* What the benchmark never touches.
wordlist_vars ==
    <<mask, mask_pos, mask_st, wordlist_config, nb_of_passwords, nb_of_threads,
      pc, temp, threads, joined, result, file, GLOBAL_COUNTER, hash_call,
      caller_vars, machine_vars, password_vars>>

\* load_cpu_benchmark up to `let start = Instant::now()`: the channel, the
\* flag and the counter are created and the progress-bar thread is spawned.
load_cpu_benchmark ==
    /\ benchmark.pc = "call"
    /\ rx_progress_bar' = [messages |-> <<>>, closed |-> FALSE]
    /\ shared_signal' = TRUE
    /\ shared_passwd_counter' = 0
    /\ stress_test' = <<>>
    /\ progress_bar_thread' = [pc |-> "recv", seconds |-> 0]
    /\ elapsed' = 0
    /\ benchmark' = [benchmark EXCEPT
                        !.pc = IF benchmark.nb_of_threads = 0 THEN "loop" ELSE "spawn"]
    /\ UNCHANGED wordlist_vars

\* One iteration of `for _ in 0..nb_of_threads`.
spawn_stress_test ==
    /\ benchmark.pc = "spawn"
    /\ stress_test' = Append(stress_test, [pc |-> "load", nb_of_passwd |-> 0])
    /\ benchmark' = [benchmark EXCEPT
                        !.pc = IF Len(stress_test) + 1 = benchmark.nb_of_threads
                               THEN "loop" ELSE "spawn"]
    /\ UNCHANGED <<elapsed, shared_signal, shared_passwd_counter, rx_progress_bar,
                   progress_bar_thread, wordlist_vars>>

\* The loop of load_cpu_benchmark with `<` for `<=`: it ends at 60 seconds.
benchmark_loop_strict ==
    /\ benchmark.pc = "loop"
    /\ IF as_secs(elapsed) < BENCHMARK_SECONDS
       THEN /\ rx_progress_bar' = [rx_progress_bar EXCEPT
                                      !.messages = Append(@, as_secs(elapsed))]
            /\ \E slept \in 1..2 : elapsed' = elapsed + slept
            /\ UNCHANGED benchmark
       ELSE /\ benchmark' = [benchmark EXCEPT !.pc = "stop"]
            /\ UNCHANGED <<rx_progress_bar, elapsed>>
    /\ UNCHANGED <<shared_signal, shared_passwd_counter, stress_test,
                   progress_bar_thread, wordlist_vars>>

\* One test of `while start.elapsed().as_secs() <= 60`: send the seconds and
\* sleep 500 ms (the sleep lasts a half second at least), or leave the loop.
benchmark_loop ==
    /\ benchmark.pc = "loop"
    /\ IF as_secs(elapsed) <= BENCHMARK_SECONDS
       THEN /\ rx_progress_bar' = [rx_progress_bar EXCEPT
                                      !.messages = Append(@, as_secs(elapsed))]
            /\ \E slept \in 1..2 : elapsed' = elapsed + slept
            /\ UNCHANGED benchmark
       ELSE /\ benchmark' = [benchmark EXCEPT !.pc = "stop"]
            /\ UNCHANGED <<rx_progress_bar, elapsed>>
    /\ UNCHANGED <<shared_signal, shared_passwd_counter, stress_test,
                   progress_bar_thread, wordlist_vars>>

\* shared_signal.store(false, SeqCst); drop(tx_progress_bar)
stop_stress_test ==
    /\ benchmark.pc = "stop"
    /\ shared_signal' = FALSE
    /\ rx_progress_bar' = [rx_progress_bar EXCEPT !.closed = TRUE]
    /\ benchmark' = [benchmark EXCEPT !.pc = "join_progress_bar"]
    /\ UNCHANGED <<elapsed, shared_passwd_counter, stress_test, progress_bar_thread,
                   wordlist_vars>>

\* progress_bar_thread.join(): returns once the thread has returned.
join_progress_bar_thread ==
    /\ benchmark.pc = "join_progress_bar"
    /\ progress_bar_thread.pc = "done"
    /\ benchmark' = [benchmark EXCEPT !.pc = "join"]
    /\ UNCHANGED <<elapsed, shared_signal, shared_passwd_counter, stress_test,
                   rx_progress_bar, progress_bar_thread, wordlist_vars>>

\* One iteration of `for thread in threads`: thread.join().
join_stress_test ==
    /\ benchmark.pc = "join"
    /\ benchmark.joined < Len(stress_test)
    /\ stress_test[benchmark.joined + 1].pc = "done"
    /\ benchmark' = [benchmark EXCEPT !.joined = @ + 1]
    /\ UNCHANGED <<elapsed, shared_signal, shared_passwd_counter, stress_test,
                   rx_progress_bar, progress_bar_thread, wordlist_vars>>

\* After the joins: shared_passwd_counter.lock(), Ok(nb_of_passwd).
load_cpu_benchmark_return ==
    /\ benchmark.pc = "join"
    /\ benchmark.joined = Len(stress_test)
    /\ benchmark' = [benchmark EXCEPT !.pc = "done",
                                      !.ret = <<"Ok", shared_passwd_counter>>]
    /\ UNCHANGED <<elapsed, shared_signal, shared_passwd_counter, stress_test,
                   rx_progress_bar, progress_bar_thread, wordlist_vars>>

\* The progress-bar thread: one turn of `for received in rx_progress_bar`
\* (the bar is set to the seconds received), or, the channel being empty and
\* its sender dropped, the end of the loop and the full bar.
progress_bar_thread_loop ==
    /\ progress_bar_thread.pc = "recv"
    /\ IF rx_progress_bar.messages # <<>>
       THEN /\ progress_bar_thread' = [progress_bar_thread EXCEPT
                                          !.seconds = Head(rx_progress_bar.messages)]
            /\ rx_progress_bar' = [rx_progress_bar EXCEPT !.messages = Tail(@)]
       ELSE /\ rx_progress_bar.closed
            /\ progress_bar_thread' = [pc |-> "done", seconds |-> BENCHMARK_SECONDS]
            /\ UNCHANGED rx_progress_bar
    /\ UNCHANGED <<benchmark, elapsed, shared_signal, shared_passwd_counter,
                   stress_test, wordlist_vars>>

\* The test of run_stress_test made only every second password.
run_stress_test_load_every_second(w) ==
    /\ stress_test[w].pc = "load"
    /\ stress_test[w].nb_of_passwd < MaxPasswd
    /\ stress_test' = [stress_test EXCEPT
                          ![w].pc = IF shared_signal \/ stress_test[w].nb_of_passwd % 2 = 1
                                    THEN "generate" ELSE "publish"]
    /\ UNCHANGED <<benchmark, elapsed, shared_signal, shared_passwd_counter,
                   rx_progress_bar, progress_bar_thread, wordlist_vars>>

\* run_stress_test, the test at the top of the loop:
\* `if !stop_signal.load(SeqCst)`, which takes the thread to the lock of the
\* counter, or else to the generation of one more password.
run_stress_test_load(w) ==
    /\ stress_test[w].pc = "load"
    /\ shared_signal => stress_test[w].nb_of_passwd < MaxPasswd
    /\ stress_test' = [stress_test EXCEPT
                          ![w].pc = IF shared_signal THEN "generate" ELSE "publish"]
    /\ UNCHANGED <<benchmark, elapsed, shared_signal, shared_passwd_counter,
                   rx_progress_bar, progress_bar_thread, wordlist_vars>>

\* password::generate_random_passwords(&PASSWORD_CONFIG); nb_of_passwd += 1
run_stress_test_generate(w) ==
    /\ stress_test[w].pc = "generate"
    /\ stress_test' = [stress_test EXCEPT ![w].pc = "load",
                                          ![w].nb_of_passwd = @ + 1]
    /\ UNCHANGED <<benchmark, elapsed, shared_signal, shared_passwd_counter,
                   rx_progress_bar, progress_bar_thread, wordlist_vars>>

\* shared_passwd_counter.lock(), *counter += nb_of_passwd, return Ok(()).
\* No thread panics with the lock held, so the lock is never poisoned.
run_stress_test_publish(w) ==
    /\ stress_test[w].pc = "publish"
    /\ shared_passwd_counter' =
          add_to_counter(shared_passwd_counter, stress_test[w].nb_of_passwd)
    /\ stress_test' = [stress_test EXCEPT ![w].pc = "done"]
    /\ UNCHANGED <<benchmark, elapsed, shared_signal, rx_progress_bar,
                   progress_bar_thread, wordlist_vars>>

run_stress_test ==
    \E w \in 1..Len(stress_test) :
        \/ run_stress_test_load(w)
        \/ run_stress_test_generate(w)
        \/ run_stress_test_publish(w)

NextBenchmark ==
    \/ load_cpu_benchmark
    \/ spawn_stress_test
    \/ benchmark_loop
    \/ stop_stress_test
    \/ join_progress_bar_thread
    \/ join_stress_test
    \/ load_cpu_benchmark_return
    \/ progress_bar_thread_loop
    \/ run_stress_test

SpecBenchmark == InitBenchmark /\ [][NextBenchmark]_vars

\* The threads of the benchmark, each scheduled again and again.
benchmark_step ==
    \/ load_cpu_benchmark
    \/ spawn_stress_test
    \/ benchmark_loop
    \/ stop_stress_test
    \/ join_progress_bar_thread
    \/ join_stress_test
    \/ load_cpu_benchmark_return

stress_test_step(w) ==
    /\ w \in 1..Len(stress_test)
    /\ (run_stress_test_load(w) \/ run_stress_test_generate(w)
            \/ run_stress_test_publish(w))

FairBenchmark ==
    /\ WF_vars(benchmark_step)
    /\ WF_vars(progress_bar_thread_loop)
    /\ \A w \in BenchmarkThreads : WF_vars(stress_test_step(w))

SpecBenchmarkFair == InitBenchmark /\ [][NextBenchmark]_vars /\ FairBenchmark

-----------------------------------------------------------------------------
(* C26, C27, C28: the benchmark *)

RECURSIVE SumPasswd(_, _)
\* The passwords generated by the first n stress-test threads.
SumPasswd(ts, n) == IF n = 0 THEN 0 ELSE SumPasswd(ts, n - 1) + ts[n].nb_of_passwd

RECURSIVE SumPublished(_, _)
\* The same of the threads that have returned.
SumPublished(ts, n) ==
    IF n = 0 THEN 0
    ELSE SumPublished(ts, n - 1) + (IF ts[n].pc = "done" THEN ts[n].nb_of_passwd ELSE 0)

\* C26: the shared counter holds the counts of the threads that have
\* returned, each once; the counter is read when every thread has been
\* joined, and load_cpu_benchmark returns the number of passwords generated
\* by all the threads together.
C26_BenchmarkCountsAll ==
    /\ benchmark.pc # "call" =>
          shared_passwd_counter = SumPublished(stress_test, Len(stress_test))
    /\ benchmark.pc = "done" =>
          /\ Len(stress_test) = benchmark.nb_of_threads
          /\ benchmark.joined = Len(stress_test)
          /\ \A w \in 1..Len(stress_test) : stress_test[w].pc = "done"
          /\ benchmark.ret = <<"Ok", SumPasswd(stress_test, Len(stress_test))>>

\* Two threads have generated passwords and the benchmark has returned
\* their sum.
C26_Witness ==
    /\ benchmark.pc = "done"
    /\ Len(stress_test) = 2
    /\ stress_test[1].nb_of_passwd = 2
    /\ stress_test[2].nb_of_passwd = 1
    /\ benchmark.ret = <<"Ok", 3>>

\* The step is one of stress-test thread w.
StressTestMoves(w) ==
    /\ w \in 1..Len(stress_test)
    /\ w \in 1..Len(stress_test')
    /\ stress_test'[w] # stress_test[w]

\* C27: once the flag is false no thread starts a password: a thread that
\* had read the flag before the store finishes the password it was about to
\* generate (its count goes up by one, once) and comes back to the test;
\* a thread at the test finds the flag false and goes to publish its count;
\* a thread that publishes adds its count to the counter and returns.
C27_AtMostOneMorePassword ==
    [][~shared_signal =>
          \A w \in 1..Len(stress_test) : StressTestMoves(w) =>
              \/ /\ stress_test[w].pc = "generate"
                 /\ stress_test'[w] = [pc |-> "load",
                                       nb_of_passwd |-> stress_test[w].nb_of_passwd + 1]
              \/ /\ stress_test[w].pc = "load"
                 /\ stress_test'[w] = [stress_test[w] EXCEPT !.pc = "publish"]
              \/ /\ stress_test[w].pc = "publish"
                 /\ stress_test'[w] = [stress_test[w] EXCEPT !.pc = "done"]
                 /\ shared_passwd_counter' =
                       shared_passwd_counter + stress_test[w].nb_of_passwd]_vars

\* The flag is false and a thread that had read it true has generated its
\* one more password and has returned.
C27_Witness ==
    /\ ~shared_signal
    /\ Len(stress_test) = 2
    /\ stress_test[1] = [pc |-> "done", nb_of_passwd |-> 2]
    /\ stress_test[2] = [pc |-> "generate", nb_of_passwd |-> 0]
    /\ shared_passwd_counter = 2

\* The phases of a run: Idle, Running, Stopping, Done.
Phase ==
    CASE benchmark.pc = "call" -> 0
      [] benchmark.pc \in {"spawn", "loop", "stop"} -> 1
      [] benchmark.pc \in {"join_progress_bar", "join"} -> 2
      [] benchmark.pc = "done" -> 3

BenchmarkDone ==
    /\ benchmark.pc = "done"
    /\ benchmark.ret[1] = "Ok"
    /\ progress_bar_thread.pc = "done"
    /\ \A w \in 1..Len(stress_test) : stress_test[w].pc = "done"

\* C28: a run goes through Idle, Running, Stopping and Done in that order;
\* the flag is true until the run stops, is written once, from true to
\* false, when the elapsed seconds exceed the length of the test, and stays
\* false; and when the threads are scheduled fairly the progress-bar thread
\* and every stress-test thread return and load_cpu_benchmark returns.
C28_BenchmarkPhases ==
    /\ [](shared_signal <=> Phase <= 1)
    /\ [][Phase' = Phase \/ Phase' = Phase + 1]_vars
    /\ [][shared_signal' # shared_signal =>
             /\ shared_signal /\ ~shared_signal'
             /\ as_secs(elapsed) > BENCHMARK_SECONDS]_vars
    /\ <>[]BenchmarkDone

\* The run is over, the test having lasted longer than asked.
C28_Witness ==
    /\ BenchmarkDone
    /\ Len(stress_test) = 2
    /\ ~shared_signal
    /\ elapsed = 2 * BENCHMARK_SECONDS + 3
    /\ progress_bar_thread.seconds = BENCHMARK_SECONDS

-----------------------------------------------------------------------------
(* The worker count: from the machine or the -t option to the partition *)

\* Numbers of physical cores, some of them beyond 8 bits.
CpuCounts == {1, 2, 255, 256, 257, 258, 512}

\* Values given with -t.
ThreadArgs ==
    { <<"0">>, <<"1">>, <<"2">>, <<"0", "0">>, <<"0", "2">>, <<"+", "2">>, <<"+">>,
      <<>>, <<"x">>, <<"2", "x">>, <<"-", "1">>, <<"-", "x">>,
      <<"2", "5", "5">>, <<"2", "5", "6">> }

InitThreads ==
    /\ mask = <<"?">>
    /\ mask_pos = 0
    /\ mask_st = mask_locals_init
    /\ wordlist_config = [dict |-> <<>>, mask_indexes |-> <<>>,
                          formated_mask |-> <<>>, hash |-> ""]
    /\ nb_of_passwords = 0
    /\ nb_of_threads = 0
    /\ mode \in {"cli", "gui"}
    /\ pc = (IF mode = "cli" THEN "args" ELSE "gui")
    /\ temp = <<>>
    /\ threads = <<>>
    /\ joined = 0
    /\ result = "none"
    /\ file = <<>>
    /\ GLOBAL_COUNTER = 0
    /\ hash_call = <<>>
    /\ wordlist_values = lowercase_only
    /\ poisoned = FALSE
    /\ scheduler = [pc |-> "none", ret |-> "none"]
    /\ main_thread = <<>>
    /\ runs = 0
    /\ physical_cores \in CpuCounts
    /\ \/ threads_arg = [given |-> FALSE, value |-> <<>>]
       \/ /\ mode = "cli"
          /\ \E value \in ThreadArgs : threads_arg = [given |-> TRUE, value |-> value]
    /\ benchmark_idle
    /\ password_idle

NextThreads ==
    \/ allocate_wordlist_config_cli
    \/ allocate_wordlist_config_gui
    \/ call_create_wordlist_content
    \/ format_mask_to_indexes
    \/ build_wordlist_config
    \/ open_file

SpecThreads == InitThreads /\ [][NextThreads]_vars

\* The front end has accepted the configuration.
ThreadsAccepted == pc \in {"content", "mask", "open", "spawn", "panicked"}

\* C29: the worker count of an accepted configuration is at least 1, and
\* the partition of run_wordlist_generation never divides by zero.
C29_ThreadsAtLeastOne ==
    ThreadsAccepted => (nb_of_threads >= 1 /\ pc # "panicked")

\* The front end has refused the configuration.
ThreadsRefused == pc = "done" /\ wordlist_config.dict = <<>>

\* What holds of the -t option: a value accepted is the decimal number
\* given, from 1 to 255; 0, a value that is no number or a value above 255
\* is refused with InvalidNumericalValue, a value starting with `-` with
\* MissingValue.
ThreadsOptionChecked ==
    (mode = "cli" /\ threads_arg.given) =>
        LET value == threads_arg.value
        IN  /\ ThreadsAccepted =>
                /\ nb_of_threads \in 1..U8_MAX
                /\ parse_u8(value) = Ok(nb_of_threads)
                /\ pc # "panicked"
            /\ ThreadsRefused =>
                result = IF value # <<>> /\ value[1] = "-" THEN "MissingValue"
                         ELSE "InvalidNumericalValue"
            /\ (ThreadsRefused /\ (value = <<>> \/ value[1] # "-")) =>
                (~parse_u8(value).ok \/ parse_u8(value).val = 0)

\* What holds of the default: it is the number of physical cores modulo
\* 256, and the partition panics exactly when that is 0.
DefaultIsCoresModulo256 ==
    (~threads_arg.given /\ ThreadsAccepted) =>
        /\ nb_of_threads = physical_cores % 256
        /\ pc = "panicked" => nb_of_threads = 0
        /\ pc = "spawn" => nb_of_threads >= 1

\* -t 0 has been refused.
ZeroRefused ==
    /\ mode = "cli" /\ threads_arg = [given |-> TRUE, value |-> <<"0">>]
    /\ ThreadsRefused /\ result = "InvalidNumericalValue"

\* On a machine of 256 physical cores the run has divided by zero.
DivisionByZero ==
    /\ physical_cores = 256 /\ ~threads_arg.given
    /\ nb_of_threads = 0 /\ pc = "panicked"
    /\ nb_of_passwords = 26

-----------------------------------------------------------------------------
(* Random password generation: password.rs *)

Reverse(s) == [i \in 1..Len(s) |-> s[Len(s) + 1 - i]]

\* slice.shuffle(&mut rng): some permutation of s.  Two of them stand for
\* all: the order kept and the order reversed.
shuffle(s) == { s, Reverse(s) }

RECURSIVE extend(_, _, _)
\* password_content.extend(password_families[i]) for i in
\* password_families_indexes, from its n-th index on.
extend(password_families, password_families_indexes, n) ==
    IF n > Len(password_families_indexes) THEN <<>>
    ELSE password_families[password_families_indexes[n]]
            \o extend(password_families, password_families_indexes, n + 1)

\* The families pushed by create_passwd_content, before they are shuffled.
password_families(config) ==
    (IF config.uppercase THEN <<UPPERCASE>> ELSE <<>>)
        \o (IF config.lowercase THEN <<LOWERCASE>> ELSE <<>>)
        \o (IF config.numbers THEN <<NUMBERS>> ELSE <<>>)
        \o (IF config.special_characters THEN <<SPECIAL_CHARACTERS>> ELSE <<>>)

\* create_passwd_content with the four families whatever the configuration.
create_passwd_content_all_families(config) ==
    { UPPERCASE \o LOWERCASE \o NUMBERS \o SPECIAL_CHARACTERS }

\* create_passwd_content: every content it can return.  Each family is
\* shuffled, the families are taken in a shuffled order, and the whole is
\* shuffled.
create_passwd_content(config) ==
    LET families == password_families(config)
        k == Len(families)
        shuffled == { f \in [1..k -> UNION { shuffle(families[i]) : i \in 1..k }] :
                        \A i \in 1..k : f[i] \in shuffle(families[i]) }
        indexes == shuffle([i \in 1..k |-> i])
    IN  UNION { shuffle(extend(f, idx, 1)) : f \in shuffled, idx \in indexes }

\* rng.gen_range(0..len): some index below len.  The first and the last
\* stand for all.
gen_range(len) == { 0, len - 1 }

\* The configurations a front end can be given: any classes, any length and
\* number up to the bounds, 0 standing for an option that is not given.
PasswordConfigs ==
    [numbers : BOOLEAN, special_characters : BOOLEAN, uppercase : BOOLEAN,
     lowercase : BOOLEAN, length : 0..MaxLength, number_of_passwords : 0..MaxPasswords]

InitPassword ==
    /\ mask = <<>>
    /\ mask_pos = 0
    /\ mask_st = mask_locals_init
    /\ wordlist_config = [dict |-> <<"a">>, mask_indexes |-> <<>>,
                          formated_mask |-> <<>>, hash |-> ""]
    /\ nb_of_passwords = 0
    /\ nb_of_threads = 1
    /\ mode \in {"cli", "gui"}
    /\ pc = "passwd_config"
    /\ temp = <<>>
    /\ threads = <<>>
    /\ joined = 0
    /\ result = "none"
    /\ file = <<>>
    /\ GLOBAL_COUNTER = 0
    /\ hash_call = <<>>
    /\ wordlist_values = lowercase_only
    /\ poisoned = FALSE
    /\ scheduler = [pc |-> "none", ret |-> "none"]
    /\ main_thread = <<>>
    /\ runs = 0
    /\ no_threads_option
    /\ benchmark_idle
    /\ password_config \in PasswordConfigs
    /\ mode = "gui" => (password_config.length > 0
                           /\ password_config.number_of_passwords > 0)
    /\ password_content = <<>>
    /\ random_password = <<>>
    /\ random_passwords = <<>>

\* What the password generation never touches.
not_password_vars ==
    <<mask, mask_pos, mask_st, wordlist_config, nb_of_passwords, nb_of_threads,
      temp, threads, joined, file, GLOBAL_COUNTER, hash_call, caller_vars,
      machine_vars, benchmark_vars>>

\* allocate_passwd_config_cli, the checks after the loop over the arguments:
\* a class, a length and a number of passwords must have been given.
allocate_passwd_config_cli ==
    /\ pc = "passwd_config"
    /\ mode = "cli"
    /\ IF no_class_chosen(password_config)
       THEN result' = "MissingConfiguration" /\ pc' = "done"
       ELSE IF password_config.length = 0 \/ password_config.number_of_passwords = 0
       THEN result' = "MissingArgument" /\ pc' = "done"
       ELSE pc' = "passwd_content" /\ UNCHANGED result
    /\ UNCHANGED <<password_vars, not_password_vars>>

\* allocate_passwd_config_gui: one pass of `while !is_option_chosen`; the
\* length and the number come from get_user_choice_int, which returns a
\* number above 0.
allocate_passwd_config_gui ==
    /\ pc = "passwd_config"
    /\ mode = "gui"
    /\ IF no_class_chosen(password_config)
       THEN /\ \E values \in AllValues :
                 password_config' = [password_config EXCEPT
                      !.numbers = values.numbers,
                      !.special_characters = values.special_characters,
                      !.uppercase = values.uppercase,
                      !.lowercase = values.lowercase]
            /\ UNCHANGED pc
       ELSE pc' = "passwd_content" /\ UNCHANGED password_config
    /\ UNCHANGED <<result, password_content, random_password, random_passwords,
                   not_password_vars>>

\* generate_random_passwords: let password_content = create_passwd_content(..)
call_create_passwd_content ==
    /\ pc = "passwd_content"
    /\ password_content' \in create_passwd_content(password_config)
    /\ pc' = "passwd_generate"
    /\ UNCHANGED <<result, password_config, random_password, random_passwords,
                   not_password_vars>>

\* generate_random_passwords, one step of its loops: a character is pushed
\* on the password (gen_range panics on an empty content), or the password
\* is complete and is pushed on the list, or the list is complete and is
\* returned.
generate_random_passwords ==
    /\ pc = "passwd_generate"
    /\ IF Len(random_passwords) = password_config.number_of_passwords
       THEN /\ pc' = "done" /\ result' = "Ok"
            /\ UNCHANGED <<random_password, random_passwords>>
       ELSE IF Len(random_password) = password_config.length
       THEN /\ random_passwords' = Append(random_passwords, random_password)
            /\ random_password' = <<>>
            /\ UNCHANGED <<pc, result>>
       ELSE IF password_content = <<>>
       THEN /\ pc' = "panicked"
            /\ UNCHANGED <<result, random_password, random_passwords>>
       ELSE /\ \E idx \in gen_range(Len(password_content)) :
                 random_password' = Append(random_password, password_content[idx + 1])
            /\ UNCHANGED <<pc, result, random_passwords>>
    /\ UNCHANGED <<password_config, password_content, not_password_vars>>

NextPassword ==
    \/ allocate_passwd_config_cli
    \/ allocate_passwd_config_gui
    \/ call_create_passwd_content
    \/ generate_random_passwords

SpecPassword == InitPassword /\ [][NextPassword]_vars

\* The characters of the classes a configuration enables.
EnabledCharacters(config) ==
    (IF config.uppercase THEN { UPPERCASE[i] : i \in 1..Len(UPPERCASE) } ELSE {})
        \cup (IF config.lowercase THEN { LOWERCASE[i] : i \in 1..Len(LOWERCASE) } ELSE {})
        \cup (IF config.numbers THEN { NUMBERS[i] : i \in 1..Len(NUMBERS) } ELSE {})
        \cup (IF config.special_characters
              THEN { SPECIAL_CHARACTERS[i] : i \in 1..Len(SPECIAL_CHARACTERS) } ELSE {})

\* C30: generate_random_passwords returns as many passwords as asked, each
\* of the length asked, made of characters of the enabled classes only; it
\* never panics, and the content it draws from holds every character of the
\* enabled classes once.
C30_RandomPasswords ==
    /\ pc # "panicked"
    /\ pc = "passwd_generate" =>
          /\ Len(password_content) = Cardinality(EnabledCharacters(password_config))
          /\ { password_content[i] : i \in 1..Len(password_content) }
                = EnabledCharacters(password_config)
    /\ (pc = "done" /\ result = "Ok") =>
          /\ Len(random_passwords) = password_config.number_of_passwords
          /\ \A p \in 1..Len(random_passwords) :
                /\ Len(random_passwords[p]) = password_config.length
                /\ \A i \in 1..Len(random_passwords[p]) :
                      random_passwords[p][i] \in EnabledCharacters(password_config)

\* Two passwords of two characters over the 91 characters of the four
\* classes have been returned.
C30_Witness ==
    /\ pc = "done" /\ result = "Ok"
    /\ Len(password_content) = 91
    /\ password_config.length = 2
    /\ Len(random_passwords) = 2
    /\ random_passwords[1] # random_passwords[2]

-----------------------------------------------------------------------------
(* The worker's buffer (wordlist.rs 354-366) *)

\* Worker w flushes: the file grows while w holds a buffer to write.
BufferFlushed(w) ==
    /\ file' # file
    /\ threads'[w] # threads[w]

\* The flush of a full buffer inside the loop, which clears it unless the
\* write fails and ends the worker.
FullBufferFlush(w) ==
    /\ threads[w].pc = "flush"
    /\ Len(threads[w].buffer) = BUFFER_SIZE
    /\ \/ threads'[w].pc = "loop" /\ threads'[w].buffer = <<>>
       \/ threads'[w].pc = "done" /\ threads'[w].ret = <<"UnableToWriteToFile">>

\* The flush of the remainder after the loop, which ends the worker.
RemainderFlush(w) ==
    /\ threads[w].pc = "loop"
    /\ threads[w].generated = threads[w].nb_of_passwords
    /\ threads[w].buffer # <<>>
    /\ Len(threads[w].buffer) < BUFFER_SIZE
    /\ threads'[w].pc = "done"

NoEmptyLine ==
    /\ file # <<>> => file[1] # NL
    /\ \A k \in 1..(Len(file) - 1) : ~(file[k] = NL /\ file[k + 1] = NL)

BufferBounded ==
    \A w \in 1..Len(threads) :
        /\ Len(threads[w].buffer) <= BUFFER_SIZE
        /\ threads[w].pc = "loop" => Len(threads[w].buffer) < BUFFER_SIZE
        /\ Len(threads[w].buffer) = BUFFER_SIZE =>
              \/ threads[w].pc = "flush"
              \/ threads[w].pc = "done" /\ threads[w].ret # <<"Ok">>
        /\ threads[w].ret = <<"Ok">> => 
              Len(threads[w].buffer) = threads[w].nb_of_passwords % BUFFER_SIZE

\* C31: a worker's buffer never holds more than BUFFER_SIZE records; a worker
\* whose buffer is full flushes it next and clears it; the file only changes
\* by the flush of a full buffer or by the one flush of a non-empty remainder
\* after the loop; the file never holds an empty line.
C31_BufferNeverOverfull ==
    /\ [](BufferBounded /\ NoEmptyLine)
    /\ [][\A w \in 1..Len(threads) :
             BufferFlushed(w) => (FullBufferFlush(w) \/ RemainderFlush(w))]_vars
    /\ [][file' # file => \E w \in 1..Len(threads) : BufferFlushed(w)]_vars

\* A worker called with an exact multiple of BUFFER_SIZE has returned Ok:
\* its records are all in the file and its buffer is empty.
C31_Witness ==
    /\ pc = "direct"
    /\ threads[1].pc = "done"
    /\ threads[1].ret = <<"Ok">>
    /\ threads[1].nb_of_passwords = 2 * BUFFER_SIZE
    /\ threads[1].buffer = <<>>
    /\ Len(Lines(file)) = 2 * BUFFER_SIZE

\* A worker called with a count of 0 returns Ok and leaves the file empty.
CountZeroWritesNothing ==
    \A w \in 1..Len(threads) :
        (threads[w].nb_of_passwords = 0 /\ threads[w].pc = "done" /\ Len(threads) = 1)
        => file = <<>>

-----------------------------------------------------------------------------
(* The odometer of the worker (wordlist.rs 346-352) *)

\* The carry reaches digit k when every digit to its right is at its maximum.
CarryReaches(v, k, base) == \A j \in (k + 1)..Len(v) : v[j] = base - 1

\* v2 is v1 stepped once by the big-endian odometer rule.
OdometerRule(v1, v2, base) ==
    /\ Len(v2) = Len(v1)
    /\ \A k \in 1..Len(v1) :
          v2[k] = IF ~CarryReaches(v1, k, base) THEN v1[k]
                  ELSE IF v1[k] = base - 1 THEN 0
                  ELSE v1[k] + 1

\* Worker w runs one iteration of its loop.
WorkerIterates(w) ==
    /\ threads[w].pc = "loop"
    /\ threads[w].generated < threads[w].nb_of_passwords
    /\ threads'[w] # threads[w]

AllMaximum(v) == \A k \in 1..Len(v) : v[k] = Len(wordlist_config.dict) - 1
AllZeros(v) == \A k \in 1..Len(v) : v[k] = 0

\* C32: each iteration of a worker steps its index vector once by the
\* odometer rule (rightmost digit first, a digit at |alphabet|-1 becomes 0
\* and carries left, the all-maximum vector becomes all zeros), no other
\* step changes the vector, and the loop ends by the count alone: a worker
\* that returns Ok has run exactly `count` iterations, past the last vector
\* if need be.
C32_OdometerStep ==
    /\ [][\A w \in 1..Len(threads) :
             IF WorkerIterates(w)
             THEN /\ OdometerRule(threads[w].dict_indexes, threads'[w].dict_indexes,
                                  Len(wordlist_config.dict))
                  /\ AllMaximum(threads[w].dict_indexes)
                        => AllZeros(threads'[w].dict_indexes)
             ELSE threads'[w].dict_indexes = threads[w].dict_indexes]_vars
    /\ [](\A w \in 1..Len(threads) :
             /\ threads[w].generated <= threads[w].nb_of_passwords
             /\ threads[w].ret = <<"Ok">> =>
                   /\ threads[w].generated = threads[w].nb_of_passwords
                   /\ threads[w].dict_indexes =
                         IndexVector(ValueOf(threads[w].start)
                                     + threads[w].nb_of_passwords))

\* A worker started on the last vector with a count of 3 over one slot of
\* the alphabet [a, b]: after xb it has emitted xa and xb again.
C32_Witness ==
    /\ pc = "direct"
    /\ wordlist_config.hash = ""
    /\ threads[1].pc = "done"
    /\ threads[1].ret = <<"Ok">>
    /\ AllMaximum(threads[1].start)
    /\ Lines(file) = << <<"x", "b">>, <<"x", "a">>, <<"x", "b">> >>

-----------------------------------------------------------------------------
(* The shape of a record (wordlist.rs 329-345) *)

\* The record worker w pushes in the step, when it pushes one.
Pushed(w) == threads'[w].buffer[Len(threads'[w].buffer)]

\* record is the template filled with the alphabet characters that the
\* index vector names, slot by slot.
RecordOf(record, index) ==
    LET cfg == wordlist_config
        slots == { cfg.mask_indexes[k] + 1 : k \in 1..Len(cfg.mask_indexes) }
    IN  /\ Len(record) = Len(cfg.formated_mask)
        /\ \A p \in (1..Len(cfg.formated_mask)) \ slots :
              record[p] = cfg.formated_mask[p]
        /\ \A k \in 1..Len(cfg.mask_indexes) :
              record[cfg.mask_indexes[k] + 1] = cfg.dict[index[k] + 1]

\* Some worker moves.
WorkerMoves == \E w \in 1..Len(threads) : threads'[w] # threads[w]

\* C33: the plain record a worker pushes has the template's length, the
\* template's literal at every literal position and alphabet[index[k]] at
\* the k-th slot position, index being the worker's vector before it is
\* advanced; no step of a worker changes the template, the slot indices or
\* the alphabet.
C33_RecordShape ==
    /\ [][\A w \in 1..Len(threads) :
             (WorkerIterates(w) /\ wordlist_config.hash = "")
             => RecordOf(Pushed(w), threads[w].dict_indexes)]_vars
    /\ [][WorkerMoves => wordlist_config' = wordlist_config]_vars

\* The second worker of a run over the template [?, \, a, SLOT] has pushed
\* the record of its start vector.
C33_Witness ==
    /\ wordlist_config.hash = ""
    /\ wordlist_config.formated_mask = <<"?", "\\", "a", NUL>>
    /\ Len(threads) >= 2
    /\ threads[2].start = <<1>>
    /\ threads[2].generated = 1
    /\ threads[2].buffer = << <<"?", "\\", "a", "b">> >>

-----------------------------------------------------------------------------
(* A worker that fails (wordlist.rs 354, 358, 364) *)

\* Worker w has got an error from process_line or save_passwd_to_file.
HitError(w) == threads[w].ret \notin { <<"running">>, <<"Ok">> }

\* Worker w gets the error of an unsupported hash name in the step.
HashFails(w) ==
    /\ ~HitError(w)
    /\ threads'[w].ret[1] = "UnsupportedHashAlgorithm"

\* C34: a worker that has got an error makes no further step, so it writes
\* nothing more and counts nothing more: every change of the file or of the
\* counter is the step of a worker that had no error; the step in which the
\* hashing fails changes neither the counter nor the file nor the worker's
\* count of records; the step in which a flush fails leaves the counter.
C34_FailedWorkerStops ==
    /\ [][\A w \in 1..Len(threads) : HitError(w) => threads'[w] = threads[w]]_vars
    /\ [][(file' # file \/ GLOBAL_COUNTER' # GLOBAL_COUNTER) =>
             \E w \in 1..Len(threads) :
                /\ ~HitError(w)
                /\ threads'[w] # threads[w]
                /\ \A v \in 1..Len(threads) : v # w => threads'[v] = threads[v]]_vars
    /\ [][\A w \in 1..Len(threads) :
             /\ HashFails(w) =>
                   /\ GLOBAL_COUNTER' = GLOBAL_COUNTER
                   /\ file' = file
                   /\ threads'[w].generated = threads[w].generated
                   /\ threads'[w].buffer = threads[w].buffer
             /\ (~HitError(w) /\ threads'[w].ret = <<"UnableToWriteToFile">>) =>
                   GLOBAL_COUNTER' = GLOBAL_COUNTER]_vars
    /\ [](\A w \in 1..Len(threads) : HitError(w) => threads[w].pc = "done")
    /\ [](GLOBAL_COUNTER = SumGenerated(threads, Len(threads)))

\* A worker's flush has failed after two records and another worker has
\* gone on writing and counting after it.
C34_Witness ==
    /\ Len(threads) = 2
    /\ threads[1].ret = <<"UnableToWriteToFile">>
    /\ threads[1].generated = BUFFER_SIZE
    /\ threads[2].ret = <<"Ok">>
    /\ threads[2].generated > BUFFER_SIZE
    /\ GLOBAL_COUNTER = BUFFER_SIZE + threads[2].generated
    /\ GLOBAL_COUNTER < nb_of_passwords

\* The worker whose hashing failed has counted nothing.
HashFailureNotCounted ==
    \A w \in 1..Len(threads) :
        (threads[w].ret[1] = "UnsupportedHashAlgorithm") => threads[w].generated = 0

-----------------------------------------------------------------------------
(* Specification of the total of a run: a configuration the front end has  *)
(* accepted, build_wordlist_config, then the power computed by run_wordlist *)
(* (cli.rs 350-354) and main_wordlist_generation (gui.rs 190-194)           *)

\* The masks of 1..MaxSlots slots, bare or after a literal.
TotalMasks ==
    { [k \in 1..n |-> "?"] : n \in 1..MaxSlots }
        \cup { <<"a">> \o [k \in 1..n |-> "?"] : n \in 1..MaxSlots }

InitTotal ==
    /\ mask \in TotalMasks
    /\ mask_pos = 0
    /\ mask_st = mask_locals_init
    /\ wordlist_config = [dict |-> <<>>, mask_indexes |-> <<>>,
                          formated_mask |-> <<>>, hash |-> ""]
    /\ nb_of_passwords = 0
    /\ nb_of_threads = 1
    /\ mode \in {"cli", "gui"}
    /\ pc = "content"
    /\ temp = <<>>
    /\ threads = <<>>
    /\ joined = 0
    /\ result = "none"
    /\ file = <<>>
    /\ GLOBAL_COUNTER = 0
    /\ hash_call = <<>>
    /\ wordlist_values \in AllValues
    /\ ~no_class_chosen(wordlist_values)
    /\ poisoned = FALSE
    /\ scheduler = [pc |-> "none", ret |-> "none"]
    /\ main_thread = <<>>
    /\ runs = 0
    /\ features_idle

NextTotal ==
    \/ call_create_wordlist_content
    \/ format_mask_to_indexes
    \/ build_wordlist_config

SpecTotal == InitTotal /\ [][NextTotal]_vars

\* n = b^e, stated by divisions.
RECURSIVE IsPower(_, _, _)
IsPower(n, b, e) ==
    IF e = 0 THEN n = 1 ELSE n % b = 0 /\ IsPower(n \div b, b, e - 1)

\* The total is ready to be handed to wordlist_generation_scheduler.
TotalComputed == pc = "open" /\ mode \in {"cli", "gui"}

\* C35: the total handed to the scheduler is |alphabet|^|slot_indices|,
\* never a wrapped value, and the computation always yields one.
C35_TotalIsExact ==
    /\ TotalComputed =>
          IsPower(nb_of_passwords, Len(wordlist_config.dict),
                  Len(wordlist_config.mask_indexes))
    /\ pc # "panicked"

\* The total is exact whenever the power fits in the word, and the
\* computation panics only when it does not.
TotalExactWhenItFits ==
    LET total == usize_pow(Len(wordlist_config.dict), Len(wordlist_config.mask_indexes))
    IN  /\ (TotalComputed /\ ~total.overflow) =>
              IsPower(nb_of_passwords, Len(wordlist_config.dict),
                      Len(wordlist_config.mask_indexes))
        /\ pc = "panicked" => total.overflow

\* The full alphabet of 91 characters with 5 slots: the total handed over is
\* the power wrapped modulo the word, smaller than 91^4.
TotalWrapped ==
    /\ TotalComputed
    /\ Len(wordlist_config.dict) = 91
    /\ Len(wordlist_config.mask_indexes) = 5
    /\ nb_of_passwords < 68574961
    /\ nb_of_passwords = wrapping_mul(68574961, 91)

\* The same configuration in a build with overflow checks: no total at all.
TotalPanicked ==
    /\ pc = "panicked"
    /\ Len(wordlist_config.dict) = 91
    /\ Len(wordlist_config.mask_indexes) = 5

-----------------------------------------------------------------------------
(* The counter and the file (wordlist.rs 354-365, 178-186) *)

\* The records the workers of the current run have pushed.
RunGain == SumGenerated(threads, Len(threads))

\* The records worker w has pushed and not yet handed to the file.
RECURSIVE Unflushed(_, _)
Unflushed(ts, n) ==
    IF n = 0 THEN 0
    ELSE Unflushed(ts, n - 1) + (IF ts[n].pc = "done" THEN 0 ELSE Len(ts[n].buffer))

\* C36: within a run the counter gains one for each record a worker pushes
\* and for nothing else; the records in the file are at most that gain and
\* the gain is at most the total; as long as no write fails the file holds
\* the gain less the records still in the buffers.  In the first run of a
\* process the gain is the counter itself.
C36_WrittenAtMostCounted ==
    /\ [][GLOBAL_COUNTER' - GLOBAL_COUNTER =
             (IF threads' = <<>> THEN 0 ELSE RunGain' - RunGain)]_vars
    /\ [](/\ Len(Lines(file)) <= RunGain
          /\ RunGain <= nb_of_passwords
          /\ NoFailedWrite =>
                Len(Lines(file)) = RunGain - Unflushed(threads, Len(threads))
          /\ runs = 1 => GLOBAL_COUNTER = RunGain)

\* The monitor of the first run has returned on counter = total while a
\* worker still holds records that are not in the file.
C36_Witness ==
    /\ runs = 1
    /\ scheduler.pc = "running"
    /\ main_thread[1].pc = "done"
    /\ GLOBAL_COUNTER = nb_of_passwords
    /\ Len(Lines(file)) < GLOBAL_COUNTER
    /\ \E w \in 1..Len(threads) : threads[w].pc = "loop" /\ threads[w].buffer # <<>>

-----------------------------------------------------------------------------
(* The monitor thread when the scheduler returns (wordlist.rs 174-199) *)

MonitorTerminated(m) == main_thread[m].pc \in {"done", "panicked"}

\* C37: whenever wordlist_generation_scheduler has returned, with Ok or with
\* an error, the monitor thread it spawned has terminated.
C37_MonitorTerminated ==
    scheduler.pc = "returned" => MonitorTerminated(runs)

\* What the code does: the monitor is joined, and so has terminated, when
\* the scheduler returns after run_wordlist_generation returned Ok; an error
\* of run_wordlist_generation returns at once, by the `?` of line 188.
MonitorJoinedAfterOk ==
    /\ (scheduler.pc = "returned" /\ result = "Ok") => MonitorTerminated(runs)
    /\ (scheduler.pc = "returned" /\ ~MonitorTerminated(runs))
          => scheduler.ret = "UnableToCreateFile"

\* The file of the first run could not be opened; its monitor is still
\* polling while the second run is under way.
MonitorOutlivesRun ==
    /\ runs = 2
    /\ scheduler.pc = "running"
    /\ main_thread[1].pc = "poll"
    /\ main_thread[1].last = 0
    /\ threads # <<>>

-----------------------------------------------------------------------------
(* The scope of an escape in the mask compiler (wordlist.rs 97-130) *)

\* The backslash at position p of m escapes the next character: it is not
\* itself escaped by the character before it.
RECURSIVE Escaping(_, _)
Escaping(m, p) ==
    /\ m[p] = "\\"
    /\ (p = 1 \/ ~Escaping(m, p - 1))

\* The character consumed last is a `?` that no backslash escapes.
UnescapedQuestionMark ==
    /\ pc = "mask"
    /\ mask_pos >= 1
    /\ mask[mask_pos] = "?"
    /\ (mask_pos = 1 \/ ~Escaping(mask, mask_pos - 1))

\* The cell pushed last is a slot.
LastCellIsSlot ==
    /\ mask_st.formated_mask # <<>>
    /\ mask_st.formated_mask[Len(mask_st.formated_mask)] = NUL
    /\ mask_st.mask_indexes # <<>>
    /\ mask_st.mask_indexes[Len(mask_st.mask_indexes)] = Len(mask_st.formated_mask) - 1

\* C38: a `?` that is not immediately preceded by an escaping backslash
\* compiles to a slot, whatever came earlier in the mask.
C38_EscapeOnlyNext ==
    UnescapedQuestionMark => LastCellIsSlot

\* What holds: such a `?` compiles to a slot when every backslash before it
\* was followed by a backslash or a question mark.
EscapeOnlyNextWhenWellEscaped ==
    (UnescapedQuestionMark /\ ~HasLoneBackslash(SubSeq(mask, 1, mask_pos)))
    => LastCellIsSlot

\* What the compiler does: `escaped`, once set by a backslash, stays set over
\* ordinary characters until a backslash or a question mark clears it, and
\* the `?` that clears it is a literal.
EscapeIsSticky ==
    /\ pc = "mask"
    /\ mask = <<"\\", "a", "?">>
    /\ mask_pos = 3
    /\ mask_st.formated_mask = <<"a", "?">>
    /\ mask_st.mask_indexes = <<>>

-----------------------------------------------------------------------------
(* The output of the mask compiler (wordlist.rs 97-130) *)

\* C39: after every character the compiler has processed, the position
\* counter is the length of the template, the slot indices are strictly
\* increasing positions of the template, and the template holds the NUL
\* placeholder at each of them.
C39_CompilerOutput ==
    pc = "mask" =>
        /\ mask_st.idx_formated_mask = Len(mask_st.formated_mask)
        /\ \A k \in 1..(Len(mask_st.mask_indexes) - 1) :
              mask_st.mask_indexes[k] < mask_st.mask_indexes[k + 1]
        /\ \A k \in 1..Len(mask_st.mask_indexes) :
              /\ mask_st.mask_indexes[k] >= 0
              /\ mask_st.mask_indexes[k] < Len(mask_st.formated_mask)
              /\ mask_st.formated_mask[mask_st.mask_indexes[k] + 1] = NUL

\* The mask `?\??` is compiled: the backslash pushed nothing and the slots
\* are at positions 0 and 2 of the template [SLOT, ?, SLOT].
C39_Witness ==
    /\ pc = "mask"
    /\ mask = <<"?", "\\", "?", "?">>
    /\ mask_pos = Len(mask)
    /\ mask_st.formated_mask = <<NUL, "?", NUL>>
    /\ mask_st.mask_indexes = <<0, 2>>
    /\ mask_st.idx_formated_mask = 3

====
